---- MODULE Spec2Model ----
(***************************************************************************)
(* Model of the dithered-gradient pipeline                                 *)
(* (src/src/lib/backgrounds/dithered-gradient.ts): the DitheredGradient    *)
(* class, its configuration merging, its resize policy, its animation loop *)
(* and the still-image exporter generateDitheredGradientImage.             *)
(*                                                                         *)
(* Representation.                                                         *)
(*  - A nullable value is a sequence: <<>> is null/undefined, <<v>> is v.  *)
(*  - A fractional number is an integer count of thousandths (1.6 is 1600);*)
(*    a time in seconds is therefore numerically a count of milliseconds,  *)
(*    which is how "* 0.001" is modelled.                                  *)
(*  - A string that the code inspects (a color) is a sequence of           *)
(*    one-character strings.                                               *)
(*  - A partial configuration object is a function whose DOMAIN is the set *)
(*    of own properties present; each value is nullable.                   *)
(*  - A color channel in [0,1] is its numerator over 255.                  *)
(***************************************************************************)
EXTENDS Integers, Sequences, FiniteSets, TLC

VARIABLES
    pipe,       \* the live DitheredGradient instance (all its fields)
    host,       \* the browser around it: container rect, devicePixelRatio
    rafQueue,   \* ids of the animation-frame callbacks the host holds
    rafSeq,     \* the last id requestAnimationFrame returned
    now,        \* performance.now(), in milliseconds
    chunksPatched, \* module-level shaderChunksPatched
    callerHost, \* a host element the application owns and may pass to the exporter
    exported,   \* outcome of the last generateDitheredGradientImage call
    lastBuilt,  \* outcome of the last constructor call of the application
    fragment,   \* the last fragment the dither shader has shaded
    rng,        \* the application's random source: its values, how many it has returned
    profile     \* outcome of the last createRandomBackgroundProfile call

vars == <<pipe, host, rafQueue, rafSeq, now, chunksPatched, callerHost, exported, lastBuilt,
          fragment, rng, profile>>

-----------------------------------------------------------------------------
(* Bounds of the model *)

MaxClock == 2
MaxRaf == 3
MaxDispose == 2
MaxLeak == 1

-----------------------------------------------------------------------------
(* Nullable values and numbers *)

None == <<>>
Some(v) == <<v>>
IsSome(o) == Len(o) > 0
OrElse(o, d) == IF Len(o) > 0 THEN o[1] ELSE d

Min(a, b) == IF a < b THEN a ELSE b
Max(a, b) == IF a > b THEN a ELSE b

\* Math.round on thousandths, giving thousandths (half rounds up).
RoundMilli(x) == ((x + 500) \div 1000) * 1000
\* Math.round / Math.floor on thousandths, giving an integer.
RoundInt(x) == (x + 500) \div 1000
FloorInt(x) == x \div 1000
\* The product of two numbers in thousandths.
MulMilli(a, b) == (a * b) \div 1000

\* Mutant of clamp: the upper bound is not applied.
clampBelow(value, min, max) == Max(value, min)

clamp(value, min, max) == Min(Max(value, min), max)

-----------------------------------------------------------------------------
(* Program constants *)

\* A color literal as the characters of its string.
HexString(a, b, c, d, e, f) == <<"#", a, b, c, d, e, f>>
WHITE == HexString("f", "f", "f", "f", "f", "f")
BLACK == HexString("0", "0", "0", "0", "0", "0")
DARK == HexString("2", "b", "2", "b", "2", "b")

DEFAULT_COLORS == <<WHITE, WHITE, DARK>>

DEFAULT_GRADIENT_CONFIG ==
    [colors |-> DEFAULT_COLORS, speed |-> 100, noiseDensity |-> 1000,
     noiseStrength |-> 3000, frequency |-> 1000, amplitude |-> 1000,
     intensity |-> 450]

DEFAULT_DITHER_CONFIG ==
    [ditherType |-> "4x4", ditherStrength |-> 1000, levels |-> 5000,
     pixelSize |-> 2000, colorFront |-> WHITE, colorBack |-> BLACK,
     colorHighlight |-> WHITE, useOriginalColors |-> FALSE, enabled |-> TRUE]

DEFAULT_PERFORMANCE_CONFIG == [renderScale |-> None]

MAX_PIXEL_RATIO == 2500
MIN_PIXEL_RATIO == 1000

-----------------------------------------------------------------------------
(* Partial objects: optional chaining, nullish coalescing, spread *)

\* partial?.k ?? d
Get(partial, k, d) ==
    IF k \in DOMAIN partial /\ IsSome(partial[k]) THEN partial[k][1] ELSE d

\* The own property k of partial as a nullable (undefined when absent).
Prop(partial, k) == IF k \in DOMAIN partial THEN partial[k] ELSE None

\* options.<group>, undefined when the group is not given
Group(options, k) == IF k \in DOMAIN options THEN options[k] ELSE <<>>

\* { ...stored, ...given } where stored is an internal config (every leaf set)
Spread(stored, given) ==
    [k \in DOMAIN stored \cup DOMAIN given |->
        IF k \in DOMAIN given THEN given[k] ELSE Some(stored[k])]

-----------------------------------------------------------------------------
(* Colors *)

\* NaN, as parseInt returns it for text with no leading hex digit.
NaN == 0 - 1
IsNaN(x) == x < 0

HexDigits == <<"0", "1", "2", "3", "4", "5", "6", "7",
               "8", "9", "a", "b", "c", "d", "e", "f">>
UpperHexDigits == <<"0", "1", "2", "3", "4", "5", "6", "7",
                    "8", "9", "A", "B", "C", "D", "E", "F">>

\* The value of one hex digit, NaN for any other character.
HexVal(ch) ==
    IF \E i \in 1..16 : HexDigits[i] = ch
    THEN (CHOOSE i \in 1..16 : HexDigits[i] = ch) - 1
    ELSE IF \E i \in 1..16 : UpperHexDigits[i] = ch
         THEN (CHOOSE i \in 1..16 : UpperHexDigits[i] = ch) - 1
         ELSE NaN

\* parseInt(a + b, 16) for two characters: leading blanks are skipped and
\* parsing stops at the first character that is no hex digit.
parseInt16(a, b) ==
    IF a = " " THEN HexVal(b)
    ELSE IF IsNaN(HexVal(a)) THEN NaN
    ELSE IF IsNaN(HexVal(b)) THEN HexVal(a)
    ELSE 16 * HexVal(a) + HexVal(b)

RECURSIVE TrimStart(_)
TrimStart(s) == IF Len(s) > 0 /\ s[1] = " " THEN TrimStart(Tail(s)) ELSE s

RECURSIVE TrimEnd(_)
TrimEnd(s) ==
    IF Len(s) > 0 /\ s[Len(s)] = " " THEN TrimEnd(SubSeq(s, 1, Len(s) - 1)) ELSE s

\* String.prototype.trim
Trim(s) == TrimEnd(TrimStart(s))

startsWithHash(s) == Len(s) > 0 /\ s[1] = "#"

\* Channel numerators over 255 (NaN where parseInt fails).
hexToRgbNormalized(color) ==
    LET trimmed == Trim(color)
        hex == IF startsWithHash(trimmed) THEN Tail(trimmed) ELSE trimmed
    IN  IF Len(hex) = 3
        THEN <<parseInt16(hex[1], hex[1]), parseInt16(hex[2], hex[2]),
               parseInt16(hex[3], hex[3])>>
        ELSE IF Len(hex) = 6
        THEN <<parseInt16(hex[1], hex[2]), parseInt16(hex[3], hex[4]),
               parseInt16(hex[5], hex[6])>>
        ELSE <<255, 255, 255>>

\* a + (b - a) * t on channel numerators, t in thousandths; the result is in
\* thousandths of a numerator.
lerp(a, b, t) == IF IsNaN(a) \/ IsNaN(b) THEN NaN ELSE a * 1000 + (b - a) * t

\* toHex of rgbToHex: clamp(Math.round(value * 255), 0, 255) in two hex
\* digits; NaN prints as the text "NaN".
toHex(value) ==
    IF IsNaN(value) THEN <<"N", "a", "N">>
    ELSE LET clamped == clamp(RoundInt(value), 0, 255)
         IN  <<HexDigits[(clamped \div 16) + 1], HexDigits[(clamped % 16) + 1]>>

rgbToHex(rgb) == <<"#">> \o toHex(rgb[1]) \o toHex(rgb[2]) \o toHex(rgb[3])

mixColors(a, b, t) ==
    LET rgbA == hexToRgbNormalized(a)
        rgbB == hexToRgbNormalized(b)
    IN  rgbToHex(<<lerp(rgbA[1], rgbB[1], t), lerp(rgbA[2], rgbB[2], t),
                   lerp(rgbA[3], rgbB[3], t)>>)

\* new Vector4(r, g, b, 1)
hexToVec4(color) == hexToRgbNormalized(color) \o <<255>>

\* value is a nullable string
normalizeColor(value, fallback) ==
    IF ~IsSome(value) THEN fallback
    ELSE LET trimmed == Trim(value[1])
         IN  IF Len(trimmed) = 0 THEN fallback
             ELSE IF startsWithHash(trimmed) THEN trimmed
             ELSE <<"#">> \o trimmed

normalizeDitherType(type) ==
    IF type = "ordered" THEN "8x8"
    ELSE IF type = "blue-noise" THEN "random"
    ELSE type

\* DitheringTypes of @paper-design/shaders numbers the types 1..4, as the
\* fallbacks of the code do.
mapDitherType(type) ==
    LET normalized == normalizeDitherType(type)
    IN  IF normalized = "random" THEN 1
        ELSE IF normalized = "2x2" THEN 2
        ELSE IF normalized = "4x4" THEN 3
        ELSE 4

-----------------------------------------------------------------------------
(* Configuration merging *)

\* Array.prototype.sort by position, ascending and stable (insertion sort).
RECURSIVE InsertStop(_, _)
InsertStop(sorted, stop) ==
    IF Len(sorted) = 0 THEN <<stop>>
    ELSE IF sorted[Len(sorted)].position <= stop.position
         THEN Append(sorted, stop)
         ELSE Append(InsertStop(SubSeq(sorted, 1, Len(sorted) - 1), stop),
                     sorted[Len(sorted)])

RECURSIVE SortStops(_)
SortStops(stops) ==
    IF Len(stops) = 0 THEN <<>>
    ELSE InsertStop(SortStops(SubSeq(stops, 1, Len(stops) - 1)), stops[Len(stops)])

\* Mutant of resolveGradientColors: the stops are taken in input order.
resolveGradientColorsUnsorted(config) ==
    IF IsSome(config.colors) /\ Len(config.colors[1]) = 3
    THEN config.colors[1]
    ELSE LET stops == OrElse(config.colorStops, <<>>)
             n == Len(stops)
         IN  IF n >= 3
             THEN <<stops[1].color, stops[(n \div 2) + 1].color, stops[n].color>>
             ELSE IF n = 2
             THEN <<stops[1].color,
                    mixColors(stops[1].color, stops[2].color, 500),
                    stops[2].color>>
             ELSE IF n = 1
             THEN <<stops[1].color, stops[1].color, stops[1].color>>
             ELSE DEFAULT_COLORS

\* config has the nullable properties colorStops and colors
resolveGradientColors(config) ==
    IF IsSome(config.colors) /\ Len(config.colors[1]) = 3
    THEN config.colors[1]
    ELSE LET stops == SortStops(OrElse(config.colorStops, <<>>))
             n == Len(stops)
         IN  IF n >= 3
             THEN <<stops[1].color, stops[(n \div 2) + 1].color, stops[n].color>>
             ELSE IF n = 2
             THEN <<stops[1].color,
                    mixColors(stops[1].color, stops[2].color, 500),
                    stops[2].color>>
             ELSE IF n = 1
             THEN <<stops[1].color, stops[1].color, stops[1].color>>
             ELSE DEFAULT_COLORS

mergeGradientConfig(partial) ==
    [colors |-> resolveGradientColors([colorStops |-> Prop(partial, "colorStops"),
                                       colors |-> Prop(partial, "colors")]),
     speed |-> Get(partial, "speed", DEFAULT_GRADIENT_CONFIG.speed),
     noiseDensity |-> Get(partial, "noiseDensity", DEFAULT_GRADIENT_CONFIG.noiseDensity),
     noiseStrength |-> Get(partial, "noiseStrength", DEFAULT_GRADIENT_CONFIG.noiseStrength),
     frequency |-> Get(partial, "frequency", DEFAULT_GRADIENT_CONFIG.frequency),
     amplitude |-> Get(partial, "amplitude", DEFAULT_GRADIENT_CONFIG.amplitude),
     intensity |-> Get(partial, "intensity", DEFAULT_GRADIENT_CONFIG.intensity)]

mergeDitherConfig(partial) ==
    [ditherType |->
        normalizeDitherType(Get(partial, "ditherType", DEFAULT_DITHER_CONFIG.ditherType)),
     ditherStrength |->
        clamp(Get(partial, "ditherStrength", DEFAULT_DITHER_CONFIG.ditherStrength), 0, 1000),
     levels |->
        clamp(RoundMilli(Get(partial, "levels", DEFAULT_DITHER_CONFIG.levels)), 2000, 16000),
     pixelSize |->
        clamp(Get(partial, "pixelSize", DEFAULT_DITHER_CONFIG.pixelSize), 500, 8000),
     colorFront |->
        normalizeColor(Prop(partial, "colorFront"), DEFAULT_DITHER_CONFIG.colorFront),
     colorBack |->
        normalizeColor(Prop(partial, "colorBack"), DEFAULT_DITHER_CONFIG.colorBack),
     colorHighlight |->
        normalizeColor(Prop(partial, "colorHighlight"), DEFAULT_DITHER_CONFIG.colorHighlight),
     useOriginalColors |->
        Get(partial, "useOriginalColors", DEFAULT_DITHER_CONFIG.useOriginalColors),
     enabled |-> Get(partial, "enabled", DEFAULT_DITHER_CONFIG.enabled)]

mergePerformanceConfig(partial) ==
    IF "renderScale" \in DOMAIN partial
    THEN [renderScale |-> partial.renderScale]
    ELSE DEFAULT_PERFORMANCE_CONFIG

-----------------------------------------------------------------------------
(* Effects.  Every call that leaves the instance (a draw call, a request  *)
(* or cancellation of an animation frame, a teardown call, preventDefault)*)
(* is appended to the instance's log, in program order.                    *)

Ev(e, a, t) == [e |-> e, a |-> a, t |-> t]

Emit(p, e, a, t) == [p EXCEPT !.log = Append(@, Ev(e, a, t))]

\* An argument of type number | null | undefined: k is "number", "NaN",
\* "Infinity", "null" or "undefined"; v is the value of a number.
Num(v) == [k |-> "number", v |-> v]
NotNum(k) == [k |-> k, v |-> 0]
\* typeof x === "number" && Number.isFinite(x)
isFiniteNumber(x) == x.k = "number"

Resources == {"gradientGeometry", "postGeometry", "gradientMaterial",
              "postMaterial", "renderTarget", "renderer"}
TeardownCalls == Resources \cup {"contextLostListener", "resizeObserver",
                                 "windowListener", "canvas"}

-----------------------------------------------------------------------------
(* Uniforms *)

autoRenderScale(width, height, dpr) ==
    LET minDimension == Min(width, height)
    IN  IF minDimension <= 720 THEN 600
        ELSE IF dpr >= 2000 THEN 750
        ELSE 1000

\* Mutant of applyDitherConfig: the mix strength does not look at enabled.
applyDitherConfigEnabled(uniforms, config, pixelRatio) ==
    [uniforms EXCEPT
        !.u_type = mapDitherType(config.ditherType),
        !.u_pxSize = MulMilli(Max(1000, config.pixelSize), Max(pixelRatio, 1000)),
        !.u_colorSteps = Max(2000, config.levels),
        !.u_mixStrength = clamp(config.ditherStrength, 0, 1000),
        !.u_colorFront = hexToVec4(config.colorFront),
        !.u_colorBack = hexToVec4(config.colorBack),
        !.u_colorHighlight = hexToVec4(config.colorHighlight),
        !.u_originalColors = config.useOriginalColors]

\* The uniforms applyDitherConfig writes, over the uniforms given.
applyDitherConfig(uniforms, config, pixelRatio) ==
    LET clampedRatio == Max(pixelRatio, 1000)
        mixStrength == IF config.enabled THEN clamp(config.ditherStrength, 0, 1000) ELSE 0
    IN  [uniforms EXCEPT
            !.u_type = mapDitherType(config.ditherType),
            !.u_pxSize = MulMilli(Max(1000, config.pixelSize), clampedRatio),
            !.u_colorSteps = Max(2000, config.levels),
            !.u_mixStrength = mixStrength,
            !.u_colorFront = hexToVec4(config.colorFront),
            !.u_colorBack = hexToVec4(config.colorBack),
            !.u_colorHighlight = hexToVec4(config.colorHighlight),
            !.u_originalColors = config.useOriginalColors]

\* The uniforms of the material createPostMaterial returns.
createPostMaterial(config) ==
    [u_resolution |-> <<1, 1>>,
     u_type |-> mapDitherType(config.ditherType),
     u_pxSize |-> Max(1000, config.pixelSize),
     u_colorSteps |-> Max(2000, config.levels),
     u_mixStrength |-> IF config.enabled THEN clamp(config.ditherStrength, 0, 1000) ELSE 0,
     u_colorFront |-> hexToVec4(config.colorFront),
     u_colorBack |-> hexToVec4(config.colorBack),
     u_colorHighlight |-> hexToVec4(config.colorHighlight),
     u_originalColors |-> config.useOriginalColors]

updatePostMaterialResolution(uniforms, width, height, pixelRatio, config) ==
    applyDitherConfig([uniforms EXCEPT !.u_resolution = <<width, height>>],
                      config, pixelRatio)

\* The uniforms applyGradientConfig writes (setGradientColors included).
applyGradientConfig(uniforms, config) ==
    LET colors == resolveGradientColors([colorStops |-> None,
                                         colors |-> Some(config.colors)])
    IN  [uniforms EXCEPT
            !.colors = colors,
            !.uC1 = hexToRgbNormalized(colors[1]),
            !.uC2 = hexToRgbNormalized(colors[2]),
            !.uC3 = hexToRgbNormalized(colors[3]),
            !.uSpeed = config.speed,
            !.uNoiseDensity = config.noiseDensity,
            !.uNoiseStrength = config.noiseStrength,
            !.uFrequency = config.frequency,
            !.uAmplitude = config.amplitude,
            !.uIntensity = config.intensity,
            !.uLoadingTime = 1000]

\* The uniforms GradientMaterialClass is declared with, then configured.
createGradientMaterial(config) ==
    applyGradientConfig(
        [colors |-> DEFAULT_COLORS,
         uC1 |-> hexToRgbNormalized(DEFAULT_COLORS[1]),
         uC2 |-> hexToRgbNormalized(DEFAULT_COLORS[2]),
         uC3 |-> hexToRgbNormalized(DEFAULT_COLORS[3]),
         uTime |-> 0,
         uSpeed |-> DEFAULT_GRADIENT_CONFIG.speed,
         uNoiseDensity |-> DEFAULT_GRADIENT_CONFIG.noiseDensity,
         uNoiseStrength |-> DEFAULT_GRADIENT_CONFIG.noiseStrength,
         uFrequency |-> DEFAULT_GRADIENT_CONFIG.frequency,
         uAmplitude |-> DEFAULT_GRADIENT_CONFIG.amplitude,
         uIntensity |-> DEFAULT_GRADIENT_CONFIG.intensity,
         uLoadingTime |-> 1000],
        config)

-----------------------------------------------------------------------------
(* DitheredGradient: private steps *)

\* The body of handleResize past its early return: the instance resized to
\* width x height at the given effective pixel ratio.
ApplySize(p, width, height, pixelRatio) ==
    [p EXCEPT
        !.lastContainerWidth = width,
        !.lastContainerHeight = height,
        !.pixelRatio = pixelRatio,
        !.renderer = [pixelRatio |-> pixelRatio, width |-> width, height |-> height],
        !.cameraAspect = <<width, height>>,
        !.renderTarget = <<Max(1, RoundInt(width * pixelRatio)),
                           Max(1, RoundInt(height * pixelRatio))>>,
        !.postUniforms =
            updatePostMaterialResolution(@, Max(1, RoundInt(width * pixelRatio)),
                                         Max(1, RoundInt(height * pixelRatio)),
                                         pixelRatio, p.ditherConfig)]

\* clamp(dpr * scale, MIN, MAX) for the clamped device pixel ratio dpr
ScaledPixelRatio(renderScale, width, height, dpr) ==
    clamp(MulMilli(dpr, OrElse(renderScale, autoRenderScale(width, height, dpr))),
          MIN_PIXEL_RATIO, MAX_PIXEL_RATIO)

\* The effective pixel ratio handleResize computes.
EffectivePixelRatio(renderScale, width, height, h) ==
    ScaledPixelRatio(renderScale, width, height,
                     clamp(OrElse(h.devicePixelRatio, 1000),
                           MIN_PIXEL_RATIO, MAX_PIXEL_RATIO))

\* Mutant of ResizeTo: the resize is never skipped.
ResizeAlways(p, force, width, height, h) ==
    ApplySize(p, width, height, EffectivePixelRatio(p.renderScale, width, height, h))

ResizeTo(p, force, width, height, h) ==
    IF ~force /\ width = p.lastContainerWidth /\ height = p.lastContainerHeight
    THEN p
    ELSE ApplySize(p, width, height,
                   EffectivePixelRatio(p.renderScale, width, height, h))

\* h is the host: h.rectWidth, h.rectHeight (thousandths of a pixel),
\* h.devicePixelRatio (nullable, thousandths).
handleResize(p, force, h) ==
    ResizeTo(p, force, Max(1, FloorInt(h.rectWidth)), Max(1, FloorInt(h.rectHeight)), h)

\* Two draw calls in sequence at time timeToUse: the gradient pass into the
\* render target, then the dither pass to the canvas.
DrawAt(p, timeToUse) ==
    [p EXCEPT !.gradientUniforms.uTime = timeToUse,
              !.log = @ \o <<Ev("draw", "gradient", timeToUse),
                             Ev("draw", "dither", timeToUse)>>]


\* Mutant of drawFrame: the manual time is ignored.
drawFrameElapsed(p, elapsed) == DrawAt(p, elapsed)

drawFrame(p, elapsed) == DrawAt(p, OrElse(p.manualTime, elapsed))

-----------------------------------------------------------------------------
(* DITHER_FRAGMENT_SHADER.  Colors are vectors of channel numerators over  *)
(* 255, thresholds are in 64ths, pixel coordinates and u_pxSize are in     *)
(* thousandths, u_colorSteps is a whole number of thousandths (levels are  *)
(* rounded when stored).                                                   *)

BAYER_2X2 == <<0, 2, 3, 1>>
BAYER_4X4 == << 0,  8,  2, 10,
               12,  4, 14,  6,
                3, 11,  1,  9,
               15,  7, 13,  5>>
BAYER_8X8 == << 0, 32,  8, 40,  2, 34, 10, 42,
               48, 16, 56, 24, 50, 18, 58, 26,
               12, 44,  4, 36, 14, 46,  6, 38,
               60, 28, 52, 20, 62, 30, 54, 22,
                3, 35, 11, 43,  1, 33,  9, 41,
               51, 19, 59, 27, 49, 17, 57, 25,
               15, 47,  7, 39, 13, 45,  5, 37,
               63, 31, 55, 23, 61, 29, 53, 21>>

\* coord is a cell of the grid (whole numbers); the result is in 64ths.
bayerThreshold(coord, size) ==
    LET index == (coord[2] % size) * size + (coord[1] % size)
    IN  IF size = 2 THEN BAYER_2X2[index + 1] * 16
        ELSE IF size = 4 THEN BAYER_4X4[index + 1] * 4
        ELSE BAYER_8X8[index + 1]

\* sampleThreshold past the random type: grid is floor(pixel / max(pxSize, 1)).
gridThreshold(grid, ditherType) ==
    IF ditherType = 2 THEN bayerThreshold(grid, 2)
    ELSE IF ditherType = 3 THEN bayerThreshold(grid, 4)
    ELSE bayerThreshold(grid, 8)

\* noise is the value of hash21(pixel), some number of [0, 1) in 64ths.
sampleThreshold(pixel, ditherType, pxSize, noise) ==
    IF ditherType = 1 THEN noise
    ELSE gridThreshold(<<pixel[1] \div Max(pxSize, 1000), pixel[2] \div Max(pxSize, 1000)>>,
                       ditherType)

Abs(x) == IF x < 0 THEN 0 - x ELSE x

\* The hue as the fraction h[1] / h[2], the saturation as s[1] / s[2] (each
\* 0 when its denominator is 0, where the shader divides by 1e-10 more),
\* the value as a channel numerator.  The hue is abs((q.w - q.y) / (6 d)).
rgb2hsv(c) ==
    LET p == IF c[2] >= c[3] THEN <<c[2], c[3]>> ELSE <<c[3], c[2]>>
        q == IF c[1] >= p[1] THEN <<c[1], p[2], p[1]>> ELSE <<p[1], p[2], c[1]>>
        d == q[1] - Min(q[3], q[2])
    IN  [h |-> <<Abs(q[3] - q[2]), 6 * d>>, s |-> <<d, q[1]>>, v |-> q[1]]

\* One channel of hsv2rgb for the value k / steps: thirds is K.x, K.y or K.z
\* in thirds (3, 2, 1).
hsvChannel(h, s, k, steps, thirds) ==
    IF s[1] = 0 THEN (255 * k) \div steps
    ELSE (255 * k * (s[2] - s[1]
                     + clamp(Abs(((h[1] + 2 * s[1] * thirds) % (6 * s[1])) - 3 * s[1]) - s[1],
                             0, s[1])))
         \div (steps * s[2])

hsv2rgb(h, s, k, steps) ==
    <<hsvChannel(h, s, k, steps, 3), hsvChannel(h, s, k, steps, 2),
      hsvChannel(h, s, k, steps, 1)>>

\* One channel of the palette color of the branch u_originalColors, for the
\* tinted foreground and the background (vec4) and quantized = k / steps;
\* opacity is tintedOpacity * quantized, in (255 * steps)ths.
paletteChannel(tinted, back, i, k, steps, opacity) ==
    ((((tinted[i] * tinted[4]) \div 255) * k
      + (((back[i] * back[4]) \div 255) * (255 * steps - opacity)) \div 255) * 255)
    \div Max(opacity + (back[4] * (255 * steps - opacity)) \div 255, 1)

\* highlightMask = step(1.02 - 0.02 * steps, quantized) picks the highlight
\* or the front color.
\* Mutant of tintedForeground: the highlight never stands for the front.
tintedFront(u, k, steps) == u.u_colorFront

tintedForeground(u, k, steps) ==
    IF 1000 * k < (1020 - 20 * steps) * steps THEN u.u_colorFront ELSE u.u_colorHighlight

paletteColor(u, baseColor, k, steps) ==
    IF u.u_originalColors
    THEN [i \in 1..3 |->
             paletteChannel(tintedForeground(u, k, steps), u.u_colorBack, i, k, steps,
                            tintedForeground(u, k, steps)[4] * k)]
    ELSE hsv2rgb(rgb2hsv(baseColor).h, rgb2hsv(baseColor).s, k, steps)

\* dot(baseColor, vec3(0.2126, 0.7152, 0.0722)), in 2,550,000ths
luminance(baseColor) == 2126 * baseColor[1] + 7152 * baseColor[2] + 722 * baseColor[3]

\* clamp(luminance + centered * u_mixStrength, 0, 1), in 2,550,000ths
biased(u, baseColor, threshold) ==
    clamp(luminance(baseColor) + ((threshold - 32) * u.u_mixStrength * 2550) \div 64,
          0, 2550000)

\* floor(biased * steps + 0.5), the numerator of quantized over steps
quantized(u, baseColor, threshold, steps) ==
    (2 * biased(u, baseColor, threshold) * steps + 2550000) \div 5100000

\* mix(baseColor, paletteColor, blendAmount), in thousandths of a numerator
finalColor(baseColor, palette, blendAmount) ==
    [i \in 1..3 |-> baseColor[i] * (1000 - blendAmount) + palette[i] * blendAmount]

\* The fragment past its threshold.
Shaded(u, baseSample, threshold, steps, k) ==
    [threshold |-> threshold,
     biased |-> biased(u, baseSample, threshold),
     quantized |-> <<k, steps>>,
     color |-> finalColor(baseSample, paletteColor(u, baseSample, k, steps),
                          clamp(u.u_mixStrength, 0, 1000)),
     alpha |-> baseSample[4]]

ShadedAt(u, baseSample, threshold, steps) ==
    Shaded(u, baseSample, threshold, steps, quantized(u, baseSample, threshold, steps))

\* main: u holds the uniforms, pixel is v_uv * u_resolution, baseSample the
\* texel of u_image at v_uv.
main(u, pixel, baseSample, noise) ==
    ShadedAt(u, baseSample, sampleThreshold(pixel, u.u_type, u.u_pxSize, noise),
             Max(u.u_colorSteps, 2000) \div 1000)

-----------------------------------------------------------------------------
(* DitheredGradient: public operations *)


\* Mutant of start: the running guard is missing.
startAgain(p, t, id) ==
    Emit([p EXCEPT !.running = TRUE, !.startTime = t, !.rafId = Some(id)],
         "raf", "request", id)

\* t is performance.now(); id is what requestAnimationFrame returns.
start(p, t, id) ==
    IF p.running THEN p
    ELSE Emit([p EXCEPT !.running = TRUE, !.startTime = t, !.rafId = Some(id)],
              "raf", "request", id)


\* Mutant of stop: the pending callback is not cancelled.
stopKeepsCallback(p) == [p EXCEPT !.running = FALSE]

\* Mutant of stop: the cancelled callback's handle is kept.
stopKeepsHandle(p) ==
    IF IsSome(p.rafId)
    THEN Emit([p EXCEPT !.running = FALSE], "raf", "cancel", p.rafId[1])
    ELSE [p EXCEPT !.running = FALSE]

stop(p) ==
    IF IsSome(p.rafId)
    THEN Emit([p EXCEPT !.running = FALSE, !.rafId = None], "raf", "cancel", p.rafId[1])
    ELSE [p EXCEPT !.running = FALSE]

\* geometry.dispose() of the mesh
disposeMesh(p, geometry) ==
    [p EXCEPT !.teardowns[geometry] = @ + 1, !.gpu[geometry] = "disposed",
              !.log = Append(@, Ev("teardown", geometry, 0))]

\* dispose, after stop(): the context-loss listener is removed
RemoveContextListener(p) ==
    [p EXCEPT !.contextLostListener = FALSE,
              !.teardowns["contextLostListener"] = @ + 1,
              !.log = Append(@, Ev("teardown", "contextLostListener", 0))]

\* dispose: the observer is disconnected, or else the window listener removed
RemoveResizeListener(p) ==
    IF p.resizeObserver
    THEN [p EXCEPT !.resizeObserver = FALSE, !.observing = FALSE,
                   !.teardowns["resizeObserver"] = @ + 1,
                   !.log = Append(@, Ev("teardown", "resizeObserver", 0))]
    ELSE [p EXCEPT !.windowListener = FALSE,
                   !.teardowns["windowListener"] = @ + 1,
                   !.log = Append(@, Ev("teardown", "windowListener", 0))]

\* dispose: the canvas leaves the container if it is still its child
DetachCanvas(p) ==
    IF p.canvasAttached
    THEN [p EXCEPT !.canvasAttached = FALSE,
                   !.teardowns["canvas"] = @ + 1,
                   !.log = Append(@, Ev("teardown", "canvas", 0))]
    ELSE p

\* dispose: material, render target and renderer are freed
FreeObject(p, name) ==
    [p EXCEPT !.teardowns[name] = @ + 1, !.gpu[name] = "disposed",
              !.log = Append(@, Ev("teardown", name, 0))]

dispose(p) ==
    FreeObject(
      FreeObject(
        FreeObject(
          FreeObject(
            disposeMesh(
              disposeMesh(
                DetachCanvas(RemoveResizeListener(RemoveContextListener(stop(p)))),
                "gradientGeometry"),
              "postGeometry"),
            "gradientMaterial"),
          "postMaterial"),
        "renderTarget"),
      "renderer")

\* update: the gradient group, merged over the stored one and applied
SetGradientConfig(p, cfg) ==
    [p EXCEPT !.gradientConfig = cfg,
              !.gradientUniforms = applyGradientConfig(@, cfg)]

\* Mutant of UpdateGradient: the gradient group is merged from the update
\* alone, without the stored one under it.
UpdateGradientFresh(p, upd) ==
    IF "gradient" \in DOMAIN upd
    THEN SetGradientConfig(p, mergeGradientConfig(upd.gradient))
    ELSE p

UpdateGradient(p, upd) ==
    IF "gradient" \in DOMAIN upd
    THEN SetGradientConfig(p, mergeGradientConfig(Spread(p.gradientConfig, upd.gradient)))
    ELSE p

\* Mutant of SetDitherConfig: the pixel ratio is not passed on and
\* applyDitherConfig falls back to its default of 1.
SetDitherConfigUnscaled(p, cfg) ==
    [p EXCEPT !.ditherConfig = cfg,
              !.postUniforms = applyDitherConfig(@, cfg, 1000)]

\* update: the dither group, merged over the stored one and applied
SetDitherConfig(p, cfg) ==
    [p EXCEPT !.ditherConfig = cfg,
              !.postUniforms = applyDitherConfig(@, cfg, p.pixelRatio)]

\* Mutant of UpdateDither: the dither group is merged whether given or not,
\* from the update alone.
UpdateDitherAlways(p, upd) == SetDitherConfig(p, mergeDitherConfig(Group(upd, "dither")))

UpdateDither(p, upd) ==
    IF "dither" \in DOMAIN upd
    THEN SetDitherConfig(p, mergeDitherConfig(Spread(p.ditherConfig, upd.dither)))
    ELSE p

\* update: the performance group
SetPerformanceConfig(p, nextPerformance, h) ==
    IF nextPerformance.renderScale # p.performanceConfig.renderScale
    THEN handleResize([p EXCEPT !.performanceConfig = nextPerformance,
                                !.renderScale = nextPerformance.renderScale],
                      TRUE, h)
    ELSE p

UpdatePerformance(p, upd, h) ==
    IF "performance" \in DOMAIN upd
    THEN SetPerformanceConfig(p, mergePerformanceConfig(upd.performance), h)
    ELSE p

\* u is a nullable update object; h is the host.
update(p, u, h) ==
    IF ~IsSome(u) THEN p
    ELSE UpdatePerformance(UpdateDither(UpdateGradient(p, u[1]), u[1]), u[1], h)

\* Mutant of RenderNow: without a manual time the frame is drawn at the
\* clock's value, not at the time elapsed since the baseline.
RenderAtClock(p, t) ==
    IF IsSome(p.manualTime) THEN drawFrame(p, p.manualTime[1]) ELSE drawFrame(p, t)

\* renderFrame past its first statement; t is performance.now().
RenderNow(p, t) ==
    IF IsSome(p.manualTime) THEN drawFrame(p, p.manualTime[1])
    ELSE IF p.startTime = 0 THEN drawFrame([p EXCEPT !.startTime = t], 0)
    ELSE drawFrame(p, t - p.startTime)


\* Mutant of renderFrame: the argument is ignored.
renderFrameNow(p, time, t) == RenderNow(p, t)

\* Mutant of renderFrame: the argument is the frame's time but is not stored.
renderFrameUnstored(p, time, t) ==
    IF isFiniteNumber(time) THEN drawFrame(p, time.v) ELSE RenderNow(p, t)

\* time is the argument (see Num); t is performance.now().
renderFrame(p, time, t) ==
    IF isFiniteNumber(time)
    THEN RenderNow([p EXCEPT !.manualTime = Some(time.v)], t)
    ELSE RenderNow(p, t)

setManualTime(p, time) ==
    IF isFiniteNumber(time)
    THEN drawFrame([p EXCEPT !.manualTime = Some(time.v)], time.v)
    ELSE [p EXCEPT !.manualTime = None]

\* render past its guard: the frame and the next request
RenderRunning(p, time, id) ==
    Emit([drawFrame(p, time - p.startTime) EXCEPT !.rafId = Some(id)],
         "raf", "request", id)

\* Mutant of render: the frame is drawn, the next callback is not requested.
renderOnce(p, time, id) ==
    IF ~p.running THEN p ELSE drawFrame(p, time - p.startTime)

\* The per-frame callback: time is the frame's timestamp, id what the
\* closing requestAnimationFrame returns.
render(p, time, id) ==
    IF ~p.running THEN p
    ELSE IF p.startTime = 0 THEN RenderRunning([p EXCEPT !.startTime = time], time, id)
    ELSE RenderRunning(p, time, id)

onContextLost(p) == stop(Emit(p, "event", "preventDefault", 0))

-----------------------------------------------------------------------------
(* DitheredGradient: construction *)

\* The instance with its three merged configs, before the constructor body
\* touches the host: the field initialisers, no canvas, no GPU object.
Instance(gradientConfig, ditherConfig, performanceConfig) ==
    [running |-> FALSE, rafId |-> None, startTime |-> 0, manualTime |-> None,
     gradientConfig |-> gradientConfig,
     ditherConfig |-> ditherConfig,
     performanceConfig |-> performanceConfig,
     renderScale |-> performanceConfig.renderScale,
     lastContainerWidth |-> 0, lastContainerHeight |-> 0, pixelRatio |-> 1000,
     resizeObserver |-> FALSE, observing |-> FALSE, windowListener |-> FALSE,
     contextLostListener |-> FALSE, canvasAttached |-> FALSE,
     gpu |-> [r \in Resources |-> "none"],
     teardowns |-> [n \in TeardownCalls |-> 0],
     renderer |-> [pixelRatio |-> 1000, width |-> 300, height |-> 150],
     cameraAspect |-> <<1, 1>>,
     renderTarget |-> <<1, 1>>,
     gradientUniforms |-> createGradientMaterial(gradientConfig),
     postUniforms |-> createPostMaterial(ditherConfig),
     log |-> <<>>]

\* The three configs are pure functions of the options.
NewInstance(options) ==
    Instance(mergeGradientConfig(Group(options, "gradient")),
             mergeDitherConfig(Group(options, "dither")),
             mergePerformanceConfig(Group(options, "performance")))

\* The constructor's stages, each on top of the one before.
WithCanvas(p) == [p EXCEPT !.canvasAttached = TRUE]
WithRenderer(p) == [p EXCEPT !.canvasAttached = TRUE, !.gpu.renderer = "live"]
WithListeners(p, h) ==
    [p EXCEPT !.canvasAttached = TRUE, !.gpu = [r \in Resources |-> "live"],
              !.contextLostListener = TRUE,
              !.resizeObserver = h.hasResizeObserver,
              !.observing = h.hasResizeObserver,
              !.windowListener = ~h.hasResizeObserver]

\* What a constructor call leaves behind: the error thrown (nullable), the
\* object as it was left, whether ensureShaderChunksPatched ran.
Built(error, p, patched) == [error |-> error, p |-> p, patched |-> patched]

\* Mutant of ConstructOn: the canvas is not removed when getContext fails.
ConstructOnLeavingCanvas(s0, h, fault) ==
    IF ~h.hasWindow THEN Built(Some("environment"), s0, FALSE)
    ELSE IF ~h.webgl2 THEN Built(Some("webgl2"), WithCanvas(s0), TRUE)
    ELSE Built(None, handleResize(WithListeners(s0, h), TRUE, h), TRUE)

\* The constructor body on the fresh instance s0.
ConstructOn(s0, h, fault) ==
    IF ~h.hasWindow THEN Built(Some("environment"), s0, FALSE)
    ELSE IF ~h.webgl2 THEN Built(Some("webgl2"), s0, TRUE)
    ELSE IF fault = "renderer" THEN Built(Some("library"), WithCanvas(s0), TRUE)
    ELSE IF fault = "material" THEN Built(Some("library"), WithRenderer(s0), TRUE)
    ELSE IF fault = "resize" THEN Built(Some("library"), WithListeners(s0, h), TRUE)
    ELSE Built(None, handleResize(WithListeners(s0, h), TRUE, h), TRUE)

\* new DitheredGradient(options) on host h.
\*   h.hasWindow          window and document exist
\*   h.webgl2             canvas.getContext("webgl2") returns a context
\*   h.hasResizeObserver  ResizeObserver is defined
\*   fault                the library call that throws: "none", "renderer"
\*                        (new WebGLRenderer), "material" (the first GPU object
\*                        built after the renderer) or "resize" (inside
\*                        handleResize(true))
Construct(options, h, fault) == ConstructOn(NewInstance(options), h, fault)

-----------------------------------------------------------------------------
(* Still-image export *)

\* A CSS length: <<>> is the empty string, <<n, "px">> is n pixels.
Px(n) == <<n, "px">>


\* Mutant of invalidDimensions: the height is not checked.
invalidWidth(width, height) == ~isFiniteNumber(width) \/ width.v <= 0

\* The guard on width and height: true when the call must be rejected.
invalidDimensions(width, height) ==
    ~isFiniteNumber(width) \/ ~isFiniteNumber(height) \/ width.v <= 0 \/ height.v <= 0

\* What a call of the exporter leaves behind: the error thrown (nullable),
\* the image returned (nullable), the temporary instance as it was left
\* (nullable; constructed: the constructor returned it), the container as it
\* was left (nullable; created: the exporter made it).
Outcome(error, image, constructed, instance, created, container, patched) ==
    [error |-> error, image |-> image, constructed |-> constructed,
     instance |-> instance, created |-> created, container |-> container,
     patched |-> patched]

\* The finally block on the container: left is the temporary instance as
\* the try block and dispose left it.
ReleaseContainer(options, left) ==
    IF ~IsSome(options.container)
    THEN [styleWidth |-> Px(RoundInt(options.width.v)),
          styleHeight |-> Px(RoundInt(options.height.v)),
          inDocument |-> FALSE,
          canvases |-> IF left.canvasAttached THEN 1 ELSE 0]
    ELSE [options.container[1] EXCEPT
            !.canvases = @ + (IF left.canvasAttached THEN 1 ELSE 0)]

\* The exit of the call once the try block is entered.
Exit(options, error, image, constructed, left, patched) ==
    Outcome(error, image, constructed, Some(left), ~IsSome(options.container),
            Some(ReleaseContainer(options, left)), patched)

\* The image toDataURL encodes: the inputs of the frame on the canvas.
Image(p) == [time |-> p.gradientUniforms.uTime, size |-> p.renderTarget,
             gradient |-> p.gradientUniforms, dither |-> p.postUniforms]

\* The try block after a successful construction; frame is the instance
\* after renderFrame.
Rendered(options, built, frame, fault) ==
    IF fault = "render"
    THEN Exit(options, Some("library"), None, TRUE, dispose(built.p), built.patched)
    ELSE IF fault = "encode"
    THEN Exit(options, Some("library"), None, TRUE, dispose(frame), built.patched)
    ELSE Exit(options, None, Some(Image(frame)), TRUE, dispose(frame), built.patched)

\* The try block: built is what the constructor left; t is performance.now().
Try(options, built, t, fault) ==
    IF IsSome(built.error)
    THEN Exit(options, built.error, None, FALSE, built.p, built.patched)
    ELSE IF isFiniteNumber(options.time)
    THEN Rendered(options, built, renderFrame(built.p, options.time, t), fault)
    ELSE Rendered(options, built, renderFrame(built.p, NotNum("undefined"), t), fault)

\* Mutant of SizedHost: the style size is the floor of the size asked for.
SizedHostFloor(options, h) ==
    [h EXCEPT !.rectWidth = FloorInt(options.width.v) * 1000,
              !.rectHeight = FloorInt(options.height.v) * 1000]

\* The host as the temporary instance sees it: its container is laid out at
\* its style size, Math.round(width) x Math.round(height) pixels.
SizedHost(options, h) ==
    [h EXCEPT !.rectWidth = RoundInt(options.width.v) * 1000,
              !.rectHeight = RoundInt(options.height.v) * 1000]

\* generateDitheredGradientImage(options) on host h.
\*   options.width, options.height, options.time   arguments (see Num),
\*        a number being in thousandths
\*   options.container   nullable: the caller's host element
\*        [styleWidth, styleHeight, inDocument, canvases]
\*   options.rest        the config groups given
\*   fault               the library call that throws, as for Construct, or
\*                        "render" (a draw call) or "encode" (toDataURL)
generateDitheredGradientImage(options, h, fault) ==
    IF ~h.hasWindow
    THEN Outcome(Some("environment"), None, FALSE, None, FALSE, options.container, FALSE)
    ELSE IF invalidDimensions(options.width, options.height)
    THEN Outcome(Some("dimensions"), None, FALSE, None, FALSE, options.container, FALSE)
    ELSE Try(options, Construct(options.rest, SizedHost(options, h), fault), h.now, fault)

-----------------------------------------------------------------------------
(* The host's animation-frame queue, driven by the instance's log *)

RECURSIVE ApplyRaf(_, _)
ApplyRaf(queue, log) ==
    IF Len(log) = 0 THEN queue
    ELSE LET ev == Head(log)
         IN  ApplyRaf(IF ev.e = "raf" /\ ev.a = "request" THEN queue \cup {ev.t}
                      ELSE IF ev.e = "raf" /\ ev.a = "cancel" THEN queue \ {ev.t}
                      ELSE queue,
                      Tail(log))

Count(log, e, a) == Cardinality({i \in 1..Len(log) : log[i].e = e /\ log[i].a = a})
Requests(log) == Count(log, "raf", "request")
Draws(log) == SelectSeq(log, LAMBDA ev : ev.e = "draw")

\* The instance at the start of an operation: the log holds the effects of
\* one operation only.
Fresh(p) == [p EXCEPT !.log = <<>>]

\* What the code reads of the host during a call.
HostView(webgl2) ==
    [hasWindow |-> host.hasWindow, webgl2 |-> webgl2,
     hasResizeObserver |-> host.hasResizeObserver,
     devicePixelRatio |-> host.devicePixelRatio,
     rectWidth |-> host.rectWidth, rectHeight |-> host.rectHeight, now |-> now]


-----------------------------------------------------------------------------
(* Inputs *)

GRAY == HexString("8", "0", "8", "0", "8", "0")

\* Arguments of renderFrame and setManualTime
TimeArgs == {Num(0), Num(7000), NotNum("NaN"), NotNum("null")}

\* Container rects (thousandths of a pixel) and device pixel ratios
RectSizes == {<<400500, 300000>>, <<1024000, 800000>>}
PixelRatios == {Some(1000), Some(3000)}

\* Options the live instance is constructed with
InitOptions == {[performance |-> [renderScale |-> Some(500)]]}

\* Arguments of update in the lifecycle specification
LifecycleUpdates ==
    {None,
     Some([gradient |-> [speed |-> Some(0)], dither |-> [levels |-> Some(3000)],
           performance |-> [renderScale |-> Some(2000)]])}

-----------------------------------------------------------------------------
(* Lifecycle specification: one live instance and its host *)

Init ==
    /\ \E options \in InitOptions, size \in {<<400500, 300000>>},
          observer \in BOOLEAN :
          /\ host = [hasWindow |-> TRUE, hasResizeObserver |-> observer,
                     devicePixelRatio |-> Some(1000),
                     rectWidth |-> size[1], rectHeight |-> size[2]]
          /\ pipe = Construct(options,
                              [hasWindow |-> TRUE, webgl2 |-> TRUE,
                               hasResizeObserver |-> observer,
                               devicePixelRatio |-> Some(1000),
                               rectWidth |-> size[1], rectHeight |-> size[2],
                               now |-> 1],
                              "none").p
    /\ rafQueue = {}
    /\ rafSeq = 0
    /\ now = 1
    /\ chunksPatched = TRUE
    /\ callerHost = [styleWidth |-> <<>>, styleHeight |-> <<>>,
                     inDocument |-> TRUE, canvases |-> 0]
    /\ exported = None
    /\ lastBuilt = None
    /\ fragment = None
    /\ rng = <<>>
    /\ profile = None

\* The instance's step, with its effect on the host's frame queue.
Step(next) ==
    /\ pipe' = next
    /\ rafQueue' = ApplyRaf(rafQueue, next.log)
    /\ rafSeq' = rafSeq + Requests(next.log)
    /\ UNCHANGED <<host, now, chunksPatched, callerHost, exported, lastBuilt,
                 fragment, rng, profile>>

Start ==
    /\ pipe.running \/ rafSeq < MaxRaf
    /\ Step(start(Fresh(pipe), now, rafSeq + 1))

Stop == Step(stop(Fresh(pipe)))

Dispose ==
    /\ pipe.teardowns["renderer"] < MaxDispose
    /\ Step(dispose(Fresh(pipe)))

Update(u) == Step(update(Fresh(pipe), u, HostView(TRUE)))

RenderFrame(time) == Step(renderFrame(Fresh(pipe), time, now))

SetManualTime(time) == Step(setManualTime(Fresh(pipe), time))

\* The host runs a pending animation-frame callback.
FrameCallback(id) ==
    /\ id \in rafQueue
    /\ rafSeq < MaxRaf
    /\ LET next == render(Fresh(pipe), now, rafSeq + 1)
       IN  /\ pipe' = next
           /\ rafQueue' = ApplyRaf(rafQueue \ {id}, next.log)
           /\ rafSeq' = rafSeq + Requests(next.log)
    /\ UNCHANGED <<host, now, chunksPatched, callerHost, exported, lastBuilt,
                 fragment, rng, profile>>

\* The canvas receives webglcontextlost; the handler runs if still registered.
ContextLost ==
    Step(IF pipe.contextLostListener THEN onContextLost(Fresh(pipe)) ELSE Fresh(pipe))


\* The container's rect changes and the host notifies whoever listens.
Resize(size) ==
    /\ host' = [host EXCEPT !.rectWidth = size[1], !.rectHeight = size[2]]
    /\ pipe' = IF pipe.observing \/ pipe.windowListener
               THEN handleResize(Fresh(pipe), FALSE,
                                 [HostView(TRUE) EXCEPT !.rectWidth = size[1],
                                                        !.rectHeight = size[2]])
               ELSE Fresh(pipe)
    /\ UNCHANGED <<rafQueue, rafSeq, now, chunksPatched, callerHost, exported, lastBuilt,
                 fragment, rng, profile>>

\* The window moves to a screen of another device pixel ratio.
PixelRatioChange(dpr) ==
    /\ host' = [host EXCEPT !.devicePixelRatio = dpr]
    /\ pipe' = Fresh(pipe)
    /\ UNCHANGED <<rafQueue, rafSeq, now, chunksPatched, callerHost, exported, lastBuilt,
                 fragment, rng, profile>>

Tick ==
    /\ now < MaxClock
    /\ now' = now + 1
    /\ pipe' = Fresh(pipe)
    /\ UNCHANGED <<host, rafQueue, rafSeq, chunksPatched, callerHost, exported, lastBuilt,
                 fragment, rng, profile>>

Next ==
    \/ Start
    \/ Stop
    \/ Dispose
    \/ \E u \in LifecycleUpdates : Update(u)
    \/ \E time \in TimeArgs : RenderFrame(time)
    \/ \E time \in TimeArgs : SetManualTime(time)
    \/ \E id \in rafQueue : FrameCallback(id)
    \/ ContextLost
    \/ \E size \in RectSizes : Resize(size)
    \/ Tick

Spec == Init /\ [][Next]_vars

-----------------------------------------------------------------------------
(* Export specification: calls of generateDitheredGradientImage *)

\* Arguments of the exporter
ExportWidths == {Num(63500), Num(0), NotNum("NaN")}
ExportHeights == {Num(48000), Num(0)}
ExportTimes == {Num(2500), NotNum("undefined")}
ExportRest == {[dither |-> [levels |-> Some(4000)]]}
\* Whether getContext("webgl2") succeeds, and the library call that throws
ExportFaults == {<<TRUE, "none">>, <<FALSE, "none">>, <<TRUE, "renderer">>,
                 <<TRUE, "material">>, <<TRUE, "resize">>, <<TRUE, "render">>,
                 <<TRUE, "encode">>}
\* Sizes the application gives its own host element
HostStyles == {<<>>, Px(200)}

InitExport ==
    /\ \E window \in BOOLEAN, dpr \in PixelRatios :
          /\ window \/ dpr = Some(1000)
          /\ host = [hasWindow |-> window, hasResizeObserver |-> TRUE,
                     devicePixelRatio |-> dpr,
                     rectWidth |-> 400500, rectHeight |-> 300000]
          /\ pipe = IF window
                    THEN Construct(<<>>,
                                   [hasWindow |-> TRUE, webgl2 |-> TRUE,
                                    hasResizeObserver |-> TRUE,
                                    devicePixelRatio |-> dpr,
                                    rectWidth |-> 400500, rectHeight |-> 300000,
                                    now |-> 1],
                                   "none").p
                    ELSE NewInstance(<<>>)
          /\ chunksPatched = window
    /\ rafQueue = {}
    /\ rafSeq = 0
    /\ now = 1
    /\ callerHost = [styleWidth |-> <<>>, styleHeight |-> <<>>,
                     inDocument |-> TRUE, canvases |-> 0]
    /\ exported = None
    /\ lastBuilt = None
    /\ fragment = None
    /\ rng = <<>>
    /\ profile = None

\* One call of the exporter; useHost: the caller passes its own host element.
Export(width, height, time, rest, useHost, case) ==
    LET options == [width |-> width, height |-> height, time |-> time, rest |-> rest,
                    container |-> IF useHost THEN Some(callerHost) ELSE None]
        out == generateDitheredGradientImage(options, HostView(case[1]), case[2])
    IN  /\ useHost => callerHost.canvases < MaxLeak
        /\ exported' = Some([options |-> options, webgl2 |-> case[1],
                             fault |-> case[2], out |-> out])
        /\ callerHost' = IF useHost THEN out.container[1] ELSE callerHost
        /\ chunksPatched' = (chunksPatched \/ out.patched)
        /\ UNCHANGED <<pipe, host, rafQueue, rafSeq, now, lastBuilt,
                 fragment, rng, profile>>

\* The application sizes its own host element.
StyleHost(size) ==
    /\ host.hasWindow
    /\ callerHost' = [callerHost EXCEPT !.styleWidth = size, !.styleHeight = size]
    /\ UNCHANGED <<pipe, host, rafQueue, rafSeq, now, chunksPatched, exported, lastBuilt,
                 fragment, rng, profile>>

NextExport ==
    \/ \E width \in ExportWidths, height \in ExportHeights, time \in ExportTimes,
          rest \in ExportRest, useHost \in BOOLEAN, case \in ExportFaults :
          Export(width, height, time, rest, useHost, case)
    \/ \E size \in HostStyles : StyleHost(size)

SpecExport == InitExport /\ [][NextExport]_vars

-----------------------------------------------------------------------------
(* Configuration specification: updates and resizes of the live instance *)

CYAN == HexString("0", "0", "f", "f", "f", "f")

ConfigOptions == {<<>>, [performance |-> [renderScale |-> Some(500)]]}

\* Arguments of update
ConfigUpdates ==
    {None,
     Some(<<>>),
     Some([gradient |-> [speed |-> Some(0)]]),
     Some([gradient |-> [colors |-> Some(<<CYAN, GRAY, BLACK>>)]]),
     Some([gradient |-> <<>>]),
     Some([dither |-> [levels |-> Some(3000)]]),
     Some([dither |-> [pixelSize |-> Some(1600), enabled |-> Some(FALSE)]]),
     Some([dither |-> [colorFront |-> Some(<<"a", "b", "c">>)]]),
     Some([dither |-> <<>>]),
     Some([performance |-> [renderScale |-> Some(750)]]),
     Some([performance |-> [renderScale |-> None]]),
     Some([performance |-> <<>>]),
     Some([gradient |-> [intensity |-> Some(360)],
           dither |-> [ditherType |-> Some("ordered")]])}

InitConfig ==
    /\ \E options \in ConfigOptions :
          /\ host = [hasWindow |-> TRUE, hasResizeObserver |-> TRUE,
                     devicePixelRatio |-> Some(1000),
                     rectWidth |-> 400500, rectHeight |-> 300000]
          /\ pipe = Construct(options,
                              [hasWindow |-> TRUE, webgl2 |-> TRUE,
                               hasResizeObserver |-> TRUE,
                               devicePixelRatio |-> Some(1000),
                               rectWidth |-> 400500, rectHeight |-> 300000,
                               now |-> 1],
                              "none").p
    /\ rafQueue = {}
    /\ rafSeq = 0
    /\ now = 1
    /\ chunksPatched = TRUE
    /\ callerHost = [styleWidth |-> <<>>, styleHeight |-> <<>>,
                     inDocument |-> TRUE, canvases |-> 0]
    /\ exported = None
    /\ lastBuilt = None
    /\ fragment = None
    /\ rng = <<>>
    /\ profile = None

\* Container rects, among them one that floors to the initial 400 x 300
ConfigSizes == RectSizes \cup {<<400900, 300200>>}

NextConfig ==
    \/ \E u \in ConfigUpdates : Update(u)
    \/ \E size \in ConfigSizes : Resize(size)
    \/ \E dpr \in PixelRatios : PixelRatioChange(dpr)

SpecConfig == InitConfig /\ [][NextConfig]_vars

-----------------------------------------------------------------------------
(* Group specification: updates of single groups on a live, possibly     *)
(* running instance                                                        *)

\* Arguments of update that leave groups out
GroupUpdates ==
    {None,
     Some(<<>>),
     Some([gradient |-> [speed |-> Some(0)]]),
     Some([dither |-> [pixelSize |-> Some(4000)]]),
     Some([performance |-> [renderScale |-> Some(2000)]]),
     Some([gradient |-> [intensity |-> Some(360)],
           performance |-> [renderScale |-> None]])}

NextGroups ==
    \/ Start
    \/ \E u \in GroupUpdates : Update(u)
    \/ \E time \in {Num(7000), NotNum("null")} : SetManualTime(time)

SpecGroups == Init /\ [][NextGroups]_vars

-----------------------------------------------------------------------------
(* Clamp specification: dither numbers out of range, at construction and *)
(* in updates                                                              *)

ClampOptions ==
    {<<>>,
     [dither |-> [levels |-> Some(20000), ditherStrength |-> Some(5000),
                  pixelSize |-> Some(9000)]],
     [dither |-> [levels |-> Some(0 - 3000), ditherStrength |-> Some(0 - 2000),
                  pixelSize |-> Some(100)]]}

ClampUpdates ==
    {Some([dither |-> [levels |-> Some(20000)]]),
     Some([dither |-> [levels |-> Some(1000)]]),
     Some([dither |-> [levels |-> Some(3400)]]),
     Some([dither |-> [levels |-> Some(2500)]]),
     Some([dither |-> [ditherStrength |-> Some(5000)]]),
     Some([dither |-> [ditherStrength |-> Some(0 - 500), pixelSize |-> Some(8001)]]),
     Some([dither |-> [ditherStrength |-> Some(250), pixelSize |-> Some(499)]]),
     Some([dither |-> [pixelSize |-> Some(1600), enabled |-> Some(FALSE)]]),
     Some([dither |-> [ditherType |-> Some("ordered")]]),
     Some([dither |-> [useOriginalColors |-> Some(TRUE)]])}

InitClamp ==
    /\ \E options \in ClampOptions :
          /\ host = [hasWindow |-> TRUE, hasResizeObserver |-> TRUE,
                     devicePixelRatio |-> Some(1000),
                     rectWidth |-> 400500, rectHeight |-> 300000]
          /\ pipe = Construct(options,
                              [hasWindow |-> TRUE, webgl2 |-> TRUE,
                               hasResizeObserver |-> TRUE,
                               devicePixelRatio |-> Some(1000),
                               rectWidth |-> 400500, rectHeight |-> 300000,
                               now |-> 1],
                              "none").p
    /\ rafQueue = {}
    /\ rafSeq = 0
    /\ now = 1
    /\ chunksPatched = TRUE
    /\ callerHost = [styleWidth |-> <<>>, styleHeight |-> <<>>,
                     inDocument |-> TRUE, canvases |-> 0]
    /\ exported = None
    /\ lastBuilt = None
    /\ fragment = None
    /\ rng = <<>>
    /\ profile = None

NextClamp == \E u \in ClampUpdates : Update(u)

SpecClamp == InitClamp /\ [][NextClamp]_vars

-----------------------------------------------------------------------------
(* Construction specification: the application constructs pipelines, in  *)
(* hosts with and without a window and a WebGL2 context                    *)

RED == HexString("f", "f", "0", "0", "0", "0")
BLUE == HexString("0", "0", "0", "0", "f", "f")

ColorStop(color, position) == [color |-> color, position |-> position]

\* Stops to choose from; two of them share a position.
StopPool == {ColorStop(RED, 0), ColorStop(BLUE, 1000),
             ColorStop(GRAY, 500), ColorStop(WHITE, 500)}

\* Every list of up to three different stops, in every order, and the lists
\* of all four that begin with the last stop
StopLists ==
    {l \in UNION {[1..n -> StopPool] : n \in 0..Cardinality(StopPool)} :
        /\ \A i, j \in 1..Len(l) : l[i] = l[j] => i = j
        /\ Len(l) = Cardinality(StopPool) => l[1] = ColorStop(BLUE, 1000)}

BuildOptions ==
    {<<>>}
    \cup {[gradient |-> [colorStops |-> Some(l)]] : l \in StopLists}
    \cup {[gradient |-> [colors |-> Some(<<CYAN, GRAY, BLACK>>),
                         colorStops |-> Some(<<ColorStop(RED, 0), ColorStop(BLUE, 1000)>>)]],
          [gradient |-> [colors |-> Some(<<CYAN, GRAY>>),
                         colorStops |-> Some(<<ColorStop(BLUE, 1000), ColorStop(RED, 0)>>)]]}

InitBuild ==
    /\ \E window \in BOOLEAN :
          host = [hasWindow |-> window, hasResizeObserver |-> window,
                  devicePixelRatio |-> Some(1000),
                  rectWidth |-> 400500, rectHeight |-> 300000]
    /\ pipe = NewInstance(<<>>)
    /\ rafQueue = {}
    /\ rafSeq = 0
    /\ now = 1
    /\ chunksPatched = FALSE
    /\ callerHost = [styleWidth |-> <<>>, styleHeight |-> <<>>,
                     inDocument |-> TRUE, canvases |-> 0]
    /\ exported = None
    /\ lastBuilt = None
    /\ fragment = None
    /\ rng = <<>>
    /\ profile = None

\* new DitheredGradient(options); pipe is the object the call leaves.
New(options, webgl2) ==
    LET out == Construct(options, HostView(webgl2), "none")
    IN  /\ lastBuilt' = Some([options |-> options, webgl2 |-> webgl2, out |-> out])
        /\ pipe' = out.p
        /\ chunksPatched' = (chunksPatched \/ out.patched)
        /\ UNCHANGED <<host, rafQueue, rafSeq, now, callerHost, exported,
                       fragment, rng, profile>>

NextBuild == \E options \in BuildOptions, webgl2 \in BOOLEAN : New(options, webgl2)

SpecBuild == InitBuild /\ [][NextBuild]_vars

-----------------------------------------------------------------------------
(* Repetition specification: the same export made again and again, in a  *)
(* process that starts with no pipeline, while the clock advances, other  *)
(* pipelines are constructed and the device pixel ratio changes            *)

RepeatRest ==
    {<<>>,
     [gradient |-> [colorStops |-> Some(<<ColorStop(BLUE, 1000), ColorStop(RED, 0)>>)],
      dither |-> [pixelSize |-> Some(3000)],
      performance |-> [renderScale |-> Some(1500)]]}

InitRepeat ==
    /\ host = [hasWindow |-> TRUE, hasResizeObserver |-> TRUE,
               devicePixelRatio |-> Some(1000),
               rectWidth |-> 400500, rectHeight |-> 300000]
    /\ pipe = NewInstance(<<>>)
    /\ rafQueue = {}
    /\ rafSeq = 0
    /\ now = 1
    /\ chunksPatched = FALSE
    /\ callerHost = [styleWidth |-> <<>>, styleHeight |-> <<>>,
                     inDocument |-> TRUE, canvases |-> 0]
    /\ exported = None
    /\ lastBuilt = None
    /\ fragment = None
    /\ rng = <<>>
    /\ profile = None

NextRepeat ==
    \/ \E time \in ExportTimes, rest \in RepeatRest, useHost \in BOOLEAN :
          Export(Num(63500), Num(48000), time, rest, useHost, <<TRUE, "none">>)
    \/ \E size \in HostStyles : StyleHost(size)
    \/ \E options \in InitOptions : New(options, TRUE)
    \/ \E dpr \in PixelRatios : PixelRatioChange(dpr)
    \/ Tick

SpecRepeat == InitRepeat /\ [][NextRepeat]_vars

-----------------------------------------------------------------------------
(* Stops specification: updates of the gradient's colors and stops *)

\* Arguments of update: stops with and without a colors property, colors of
\* three and of two elements, colors explicitly undefined.
StopUpdates ==
    {Some([gradient |-> [colorStops |-> Some(<<ColorStop(BLUE, 1000), ColorStop(RED, 0)>>)]]),
     Some([gradient |-> [colorStops |-> Some(<<ColorStop(GRAY, 500)>>),
                         intensity |-> Some(360)]]),
     Some([gradient |-> [colors |-> Some(<<CYAN, GRAY, BLACK>>)]]),
     Some([gradient |-> [colors |-> Some(<<RED, GRAY, BLUE>>),
                         colorStops |-> Some(<<ColorStop(GRAY, 500)>>)]]),
     Some([gradient |-> [colors |-> None,
                         colorStops |-> Some(<<ColorStop(RED, 0), ColorStop(BLUE, 1000)>>)]]),
     Some([gradient |-> [colors |-> Some(<<RED, BLUE>>)]]),
     Some([gradient |-> [speed |-> Some(0)]]),
     Some([gradient |-> [intensity |-> None]]),
     Some([dither |-> [levels |-> Some(3000)]]),
     Some([dither |-> [enabled |-> Some(FALSE)]]),
     Some([dither |-> [pixelSize |-> Some(1600)]])}

NextStops == \E u \in StopUpdates : Update(u)

SpecStops == InitConfig /\ [][NextStops]_vars

-----------------------------------------------------------------------------
(* random-background.ts: createRandomBackgroundProfile, and the            *)
(* specification of an application that merges its profile's dither group  *)
(* into the live instance.  source is the random source: source.values are *)
(* the numbers of [0, 1) it returns (thousandths), source.drawn how many   *)
(* it has returned; the n-th rng() of a call returns                       *)
(* source.values[source.drawn + n].                                        *)

BACKGROUND_PALETTES ==
    <<<<HexString("f", "d", "f", "d", "f", "d"), HexString("e", "d", "e", "d", "e", "d"),
        HexString("d", "5", "d", "5", "d", "5")>>,
      <<HexString("f", "a", "f", "a", "f", "a"), HexString("e", "7", "e", "7", "e", "7"),
        HexString("c", "f", "c", "f", "c", "f")>>,
      <<HexString("f", "7", "f", "7", "f", "7"), HexString("e", "2", "e", "2", "e", "2"),
        HexString("c", "b", "c", "b", "c", "b")>>,
      <<HexString("f", "5", "f", "5", "f", "5"), HexString("d", "a", "d", "a", "d", "a"),
        HexString("c", "0", "c", "0", "c", "0")>>,
      <<HexString("f", "f", "f", "f", "f", "f"), HexString("e", "c", "e", "c", "e", "c"),
        HexString("d", "4", "d", "4", "d", "4")>>>>

DITHER_CHOICES == <<"8x8", "4x4", "2x2">>

\* The n-th rng() of the call
Rng(source, n) == source.values[source.drawn + n]

\* Mutant of randomDither: the levels are drawn before the dither type and
\* the strength.
randomDitherLevelsFirst(source, palette) ==
    [enabled |-> Some(TRUE),
     ditherType |-> Some(DITHER_CHOICES[FloorInt(Rng(source, 8) * Len(DITHER_CHOICES)) + 1]),
     ditherStrength |-> Some(600 + MulMilli(Rng(source, 9), 250)),
     levels |-> Some((3 + FloorInt(Rng(source, 7) * 3)) * 1000),
     pixelSize |-> Some(1100 + MulMilli(Rng(source, 10), 1000)),
     colorFront |-> Some(palette[2]),
     colorBack |-> Some(palette[3]),
     colorHighlight |-> Some(palette[1]),
     useOriginalColors |-> Some(FALSE)]

\* The dither group of the profile, a DitherConfig (every property given).
randomDither(source, palette) ==
    [enabled |-> Some(TRUE),
     ditherType |-> Some(DITHER_CHOICES[FloorInt(Rng(source, 7) * Len(DITHER_CHOICES)) + 1]),
     ditherStrength |-> Some(600 + MulMilli(Rng(source, 8), 250)),
     levels |-> Some((3 + FloorInt(Rng(source, 9) * 3)) * 1000),
     pixelSize |-> Some(1100 + MulMilli(Rng(source, 10), 1000)),
     colorFront |-> Some(palette[2]),
     colorBack |-> Some(palette[3]),
     colorHighlight |-> Some(palette[1]),
     useOriginalColors |-> Some(FALSE)]

\* The profile past its palette.
randomProfile(source, palette) ==
    [colors |-> palette,
     speed |-> 0,
     noiseStrength |-> 350 + MulMilli(Rng(source, 2), 150),
     intensity |-> 300 + MulMilli(Rng(source, 3), 120),
     noiseDensityScale |-> 700 + MulMilli(Rng(source, 4), 250),
     frequencyScale |-> 820 + MulMilli(Rng(source, 5), 250),
     amplitudeScale |-> 850 + MulMilli(Rng(source, 6), 200),
     dither |-> randomDither(source, palette),
     performance |-> [renderScale |-> Some(840 + MulMilli(Rng(source, 11), 100))]]

\* The profile returned, and the random source as the call leaves it.
createRandomBackgroundProfile(source) ==
    [profile |-> randomProfile(source,
                               BACKGROUND_PALETTES[FloorInt(Rng(source, 1)
                                                            * Len(BACKGROUND_PALETTES)) + 1]),
     rng |-> [source EXCEPT !.drawn = @ + 11]]

\* Random sources: one value apart from the others, at every place
RandomValues == {0, 250, 500, 700, 999}
RandomStreams ==
    {[j \in 1..12 |-> IF j = i THEN v ELSE w] :
        i \in 1..11, v \in RandomValues, w \in {0, 999}}

InitProfile ==
    /\ \E options \in ConfigOptions :
          /\ host = [hasWindow |-> TRUE, hasResizeObserver |-> TRUE,
                     devicePixelRatio |-> Some(1000),
                     rectWidth |-> 400500, rectHeight |-> 300000]
          /\ pipe = Construct(options,
                              [hasWindow |-> TRUE, webgl2 |-> TRUE,
                               hasResizeObserver |-> TRUE,
                               devicePixelRatio |-> Some(1000),
                               rectWidth |-> 400500, rectHeight |-> 300000,
                               now |-> 1],
                              "none").p
    /\ rafQueue = {}
    /\ rafSeq = 0
    /\ now = 1
    /\ chunksPatched = TRUE
    /\ callerHost = [styleWidth |-> <<>>, styleHeight |-> <<>>,
                     inDocument |-> TRUE, canvases |-> 0]
    /\ exported = None
    /\ lastBuilt = None
    /\ fragment = None
    /\ rng \in {[values |-> s, drawn |-> 0] : s \in RandomStreams}
    /\ profile = None

\* The application calls createRandomBackgroundProfile(rng).
CreateProfile ==
    /\ rng.drawn + 11 <= Len(rng.values)
    /\ profile' = Some(createRandomBackgroundProfile(rng).profile)
    /\ rng' = createRandomBackgroundProfile(rng).rng
    /\ UNCHANGED <<pipe, host, rafQueue, rafSeq, now, chunksPatched, callerHost,
                   exported, lastBuilt, fragment>>

\* The application gives the profile's dither group to the live instance.
MergeProfile ==
    /\ IsSome(profile)
    /\ Update(Some([dither |-> profile[1].dither]))

NextProfile == CreateProfile \/ MergeProfile

SpecProfile == InitProfile /\ [][NextProfile]_vars

-----------------------------------------------------------------------------
(* Sizes specification: exports of small and large sizes at several       *)
(* device pixel ratios                                                    *)

SizeWidths == {Num(400), Num(1000), Num(2000), Num(63500), Num(800000)}
SizeHeights == {Num(1000), Num(48000), Num(800000)}
SizeRest == {<<>>, [performance |-> [renderScale |-> Some(1500)]]}
SizeRatios == {Some(1000), Some(2000), Some(3000)}

NextSizes ==
    \/ \E width \in SizeWidths, height \in SizeHeights, rest \in SizeRest :
          Export(width, height, NotNum("undefined"), rest, FALSE, <<TRUE, "none">>)
    \/ \E dpr \in SizeRatios : PixelRatioChange(dpr)

SpecSizes == InitRepeat /\ [][NextSizes]_vars

-----------------------------------------------------------------------------
(* Shader specification: fragments of the dither pass, shaded with the    *)
(* uniforms of an instance that is reconfigured and resized               *)

\* Options of the instance: every number of levels, three distinct colors
ShaderOptions ==
    {[dither |-> [levels |-> Some(l * 1000), pixelSize |-> Some(1600),
                  colorFront |-> Some(RED), colorBack |-> Some(BLUE),
                  colorHighlight |-> Some(CYAN)]] : l \in 2..16}

\* Arguments of update
ShaderUpdates ==
    {Some([dither |-> [ditherType |-> Some("2x2")]]),
     Some([dither |-> [ditherType |-> Some("8x8")]]),
     Some([dither |-> [ditherType |-> Some("random")]]),
     Some([dither |-> [pixelSize |-> Some(500)]]),
     Some([dither |-> [useOriginalColors |-> Some(TRUE)]]),
     Some([dither |-> [enabled |-> Some(FALSE)]]),
     Some([performance |-> [renderScale |-> Some(1500)]])}

\* Fragment centers (v_uv * u_resolution), texels of the gradient target
\* (rgba) and values of hash21
ShaderPixels == {<<500, 500>>, <<3500, 1500>>}
ShaderTexels == {<<255, 255, 255, 255>>, <<0, 0, 0, 255>>, <<128, 128, 128, 255>>,
                 <<204, 204, 204, 255>>, <<0, 255, 0, 128>>}
ShaderNoise == {0, 63}

InitShader ==
    /\ \E options \in ShaderOptions :
          /\ host = [hasWindow |-> TRUE, hasResizeObserver |-> TRUE,
                     devicePixelRatio |-> Some(1000),
                     rectWidth |-> 400500, rectHeight |-> 300000]
          /\ pipe = Construct(options,
                              [hasWindow |-> TRUE, webgl2 |-> TRUE,
                               hasResizeObserver |-> TRUE,
                               devicePixelRatio |-> Some(1000),
                               rectWidth |-> 400500, rectHeight |-> 300000,
                               now |-> 1],
                              "none").p
    /\ rafQueue = {}
    /\ rafSeq = 0
    /\ now = 1
    /\ chunksPatched = TRUE
    /\ callerHost = [styleWidth |-> <<>>, styleHeight |-> <<>>,
                     inDocument |-> TRUE, canvases |-> 0]
    /\ exported = None
    /\ lastBuilt = None
    /\ fragment = None
    /\ rng = <<>>
    /\ profile = None

\* update(u); the fragment shaded with the uniforms of before is forgotten.
Reconfigure(u) ==
    /\ pipe' = update(Fresh(pipe), u, HostView(TRUE))
    /\ fragment' = None
    /\ UNCHANGED <<host, rafQueue, rafSeq, now, chunksPatched, callerHost, exported,
                   lastBuilt, rng, profile>>

\* The container's rect changes and the observer calls handleResize.
Relayout(size) ==
    /\ host' = [host EXCEPT !.rectWidth = size[1], !.rectHeight = size[2]]
    /\ pipe' = handleResize(Fresh(pipe), FALSE,
                            [HostView(TRUE) EXCEPT !.rectWidth = size[1],
                                                   !.rectHeight = size[2]])
    /\ fragment' = None
    /\ UNCHANGED <<rafQueue, rafSeq, now, chunksPatched, callerHost, exported,
                   lastBuilt, rng, profile>>

\* The dither pass shades the fragment at pixel, whose texel is baseSample.
Shade(pixel, baseSample, noise) ==
    /\ fragment' = Some([pixel |-> pixel, baseSample |-> baseSample,
                         out |-> main(pipe.postUniforms, pixel, baseSample, noise)])
    /\ UNCHANGED <<pipe, host, rafQueue, rafSeq, now, chunksPatched, callerHost,
                   exported, lastBuilt, rng, profile>>

NextShader ==
    \/ \E u \in ShaderUpdates : Reconfigure(u)
    \/ \E size \in RectSizes : Relayout(size)
    \/ \E pixel \in ShaderPixels, baseSample \in ShaderTexels, noise \in ShaderNoise :
          Shade(pixel, baseSample, noise)

SpecShader == InitShader /\ [][NextShader]_vars

-----------------------------------------------------------------------------
(* Loop specification: the animation loop under a fair frame scheduler *)

\* The handle the host's next requestAnimationFrame returns. Handles come
\* from a pool of MaxRaf and the host hands out one after the other; rafSeq is
\* the last one handed out.
Handle == (rafSeq % MaxRaf) + 1

\* The instance's step; fired is the set of callbacks the host has just
\* taken off its queue to run.
StepLoop(next, fired) ==
    /\ pipe' = next
    /\ rafQueue' = ApplyRaf(rafQueue \ fired, next.log)
    /\ rafSeq' = IF Requests(next.log) > 0 THEN Handle ELSE rafSeq
    /\ UNCHANGED <<host, now, chunksPatched, callerHost, exported, lastBuilt,
                 fragment, rng, profile>>

LoopStart == StepLoop(start(Fresh(pipe), now, Handle), {})

LoopStop == StepLoop(stop(Fresh(pipe)), {})

LoopDispose ==
    /\ pipe.teardowns["renderer"] < MaxDispose
    /\ StepLoop(dispose(Fresh(pipe)), {})

LoopContextLost ==
    StepLoop(IF pipe.contextLostListener THEN onContextLost(Fresh(pipe)) ELSE Fresh(pipe),
             {})

\* The host runs a pending animation-frame callback.
LoopCallback(id) ==
    /\ id \in rafQueue
    /\ StepLoop(render(Fresh(pipe), now, Handle), {id})

NextLoop ==
    \/ LoopStart
    \/ LoopStop
    \/ LoopDispose
    \/ LoopContextLost
    \/ \E id \in rafQueue : LoopCallback(id)
    \/ \E time \in {Num(7000), NotNum("null")} : SetManualTime(time)
    \/ Tick

\* The host runs a pending callback at the next frame: it does not leave a
\* callback pending for ever.
SpecLoop ==
    Init /\ [][NextLoop]_vars /\ WF_vars(\E id \in rafQueue : LoopCallback(id))

-----------------------------------------------------------------------------
(* Properties of the lifecycle (checked under Spec) *)

\* dispose() has been called on the live instance.
Disposed == pipe.teardowns["renderer"] > 0

\* The log holds a frame drawn by the animation loop: two draw calls and the
\* request for the next callback.
LoopFrame(log) == Len(Draws(log)) > 0 /\ Requests(log) > 0

\* C1: once dispose() has been called the pipeline is never Running again,
\* no frame callback is scheduled and no draw call is issued.
DisposedIsTerminal ==
    Disposed => /\ ~pipe.running
                /\ pipe.rafId = None
                /\ rafQueue = {}
                /\ Len(Draws(pipe.log)) = 0

\* C2: however often dispose() is called, each resource is torn down at
\* most once.
TeardownAtMostOnce == \A n \in TeardownCalls : pipe.teardowns[n] <= 1

\* C3: while a manual time is set every frame drawn uses it, whoever draws;
\* the manual time is cleared only by setManualTime with a non-finite or
\* absent value, and replaced only by setManualTime or renderFrame.
ManualTimeWins ==
    /\ [](IsSome(pipe.manualTime) =>
            \A i \in 1..Len(pipe.log) :
                pipe.log[i].e = "draw" => pipe.log[i].t = pipe.manualTime[1])
    /\ [][/\ (IsSome(pipe.manualTime) /\ ~IsSome(pipe'.manualTime)) =>
                \E time \in TimeArgs : ~isFiniteNumber(time) /\ SetManualTime(time)
          /\ (IsSome(pipe.manualTime) /\ pipe'.manualTime # pipe.manualTime) =>
                \E time \in TimeArgs : SetManualTime(time) \/ RenderFrame(time)]_vars

\* C3 witness: the running loop has drawn a frame while a manual time is set.
ManualLoopFrame ==
    /\ pipe.manualTime = Some(7000)
    /\ pipe.running
    /\ LoopFrame(pipe.log)

\* C4: after stop() running is false and no callback is pending; a second
\* stop() changes nothing; while stopped the loop draws no frame until
\* start() (a callback that still fired would draw nothing and request
\* nothing); every frame has both of its draw calls, gradient then dither.
StopIsCooperative ==
    /\ [](LET d == Draws(pipe.log)
          IN  \/ Len(d) = 0
              \/ Len(d) = 2 /\ d[1].a = "gradient" /\ d[2].a = "dither")
    /\ [](~pipe.running => render(Fresh(pipe), now, rafSeq + 1) = Fresh(pipe))
    /\ [][/\ Stop => (~pipe'.running /\ pipe'.rafId = None /\ rafQueue' = {})
          /\ (Stop /\ ~pipe.running) =>
                (Fresh(pipe') = Fresh(pipe) /\ rafQueue' = rafQueue)
          /\ (~pipe.running /\ ~Start) =>
                (~pipe'.running /\ rafQueue' = {} /\ ~LoopFrame(pipe'.log))]_vars

\* C4 witness: stop() has just cancelled the pending callback of a loop
\* that had drawn.
StoppedPendingFrame ==
    /\ ~pipe.running
    /\ rafSeq >= 2
    /\ pipe.log = <<Ev("raf", "cancel", rafSeq)>>

\* C5: start() while running requests no callback and keeps the baseline;
\* start() while not running sets running, takes the current instant as
\* baseline and requests exactly one callback.
StartIsIdempotent ==
    [][Start =>
        IF pipe.running
        THEN Fresh(pipe') = Fresh(pipe) /\ rafQueue' = rafQueue /\ rafSeq' = rafSeq
        ELSE /\ pipe'.running
             /\ pipe'.startTime = now
             /\ pipe'.rafId = Some(rafSeq + 1)
             /\ Requests(pipe'.log) = 1
             /\ rafSeq + 1 \notin rafQueue
             /\ rafQueue' = rafQueue \cup {rafSeq + 1}]_vars

\* C5 witness: the loop has been started again, later than the first time.
Restarted ==
    /\ pipe.running
    /\ rafSeq >= 2
    /\ now > 1
    /\ pipe.startTime = now
    /\ pipe.log = <<Ev("raf", "request", rafSeq)>>

\* C6: a context-loss event, in whatever state it arrives, leaves the loop
\* stopped with no callback pending (and the handler, where it is still
\* registered, prevents the default); only start() sets the loop running.
ContextLossStopsLoop ==
    [][/\ ContextLost =>
            /\ ~pipe'.running
            /\ pipe'.rafId = None
            /\ rafQueue' = {}
            /\ pipe.contextLostListener =>
                    Count(pipe'.log, "event", "preventDefault") = 1
       /\ (~pipe.running /\ pipe'.running) => Start]_vars

-----------------------------------------------------------------------------
(* Properties of the exporter (checked under SpecExport) *)

\* The argument is no finite number above zero.
NotPositive(x) == x.k # "number" \/ x.v <= 0

\* The last call passed validation and entered its try block.
Entered == IsSome(exported) /\ IsSome(exported[1].out.instance)

\* C7: on every exit from the try block the temporary instance is torn
\* down, its canvas is off the host, a host the exporter made is out of the
\* document and a caller's host is in the document at its prior size.
ExportTearsDown ==
    Entered =>
        LET call == exported[1]
            left == call.out.instance[1]
            container == call.out.container[1]
        IN  /\ \A r \in Resources : left.gpu[r] # "live"
            /\ ~left.canvasAttached
            /\ ~left.contextLostListener /\ ~left.observing /\ ~left.windowListener
            /\ call.out.created => ~container.inDocument
            /\ ~call.out.created =>
                    /\ container.inDocument
                    /\ container.styleWidth = call.options.container[1].styleWidth
                    /\ container.styleHeight = call.options.container[1].styleHeight

\* The last call was given a width or height that is non-finite or <= 0.
BadDimensions ==
    /\ IsSome(exported)
    /\ NotPositive(exported[1].options.width) \/ NotPositive(exported[1].options.height)

\* The last call created no host, left the caller's host as it was and
\* constructed nothing.
Untouched ==
    /\ exported[1].out.instance = None
    /\ ~exported[1].out.created
    /\ exported[1].out.container = exported[1].options.container
    /\ exported[1].out.image = None

\* C8 as stated: bad dimensions always fail with the dimensions error.
InvalidDimensionsRejected ==
    BadDimensions => exported[1].out.error = Some("dimensions") /\ Untouched

\* C8 amended: in a graphical host bad dimensions fail with the dimensions
\* error; without one the environment error comes first; either way
\* nothing is created, modified or constructed.
InvalidDimensionsRejectedInBrowser ==
    BadDimensions =>
        /\ Untouched
        /\ exported[1].out.error =
                IF host.hasWindow THEN Some("dimensions") ELSE Some("environment")

\* C8 witness: a call in a browser with a valid width, a height of 0 and
\* the caller's own sized host has been rejected.
RejectedHeight ==
    /\ IsSome(exported)
    /\ host.hasWindow
    /\ exported[1].options.width = Num(63500)
    /\ exported[1].options.height = Num(0)
    /\ exported[1].options.container = Some([styleWidth |-> Px(200), styleHeight |-> Px(200),
                                             inDocument |-> TRUE, canvases |-> 0])
    /\ exported[1].out.error = Some("dimensions")

\* C9: a call that returns an image has drawn exactly one frame, gradient
\* pass then dither pass, at the given time when that is finite, and has
\* requested no frame callback and never run.
ExportDrawsOneFrame ==
    (IsSome(exported) /\ exported[1].out.error = None) =>
        LET call == exported[1]
            left == call.out.instance[1]
            d == Draws(left.log)
        IN  /\ Len(d) = 2
            /\ d[1].a = "gradient" /\ d[2].a = "dither"
            /\ isFiniteNumber(call.options.time) =>
                    /\ d[1].t = call.options.time.v
                    /\ d[2].t = call.options.time.v
                    /\ call.out.image[1].time = call.options.time.v
            /\ \A i \in 1..Len(left.log) : left.log[i].e # "raf"
            /\ ~left.running /\ left.rafId = None
            /\ rafQueue = {}

\* C9 witness: an image has been returned for a call with a finite time.
ExportedAtTime ==
    /\ IsSome(exported)
    /\ exported[1].out.error = None
    /\ exported[1].options.time = Num(2500)
    /\ IsSome(exported[1].out.image)
    /\ Len(Draws(exported[1].out.instance[1].log)) = 2

-----------------------------------------------------------------------------
(* Properties of update (checked under SpecConfig) *)

\* The stored config of a group
Stored(p, g) ==
    IF g = "gradient" THEN p.gradientConfig
    ELSE IF g = "dither" THEN p.ditherConfig
    ELSE p.performanceConfig

\* C10: a leaf that the given group omits keeps its stored value.
UpdateKeepsOmittedLeaves ==
    [][\A u \in ConfigUpdates :
        (IsSome(u) /\ Update(u)) =>
            \A g \in DOMAIN u[1] :
                \A leaf \in DOMAIN Stored(pipe, g) \ DOMAIN u[1][g] :
                    Stored(pipe', g)[leaf] = Stored(pipe, g)[leaf]]_vars

-----------------------------------------------------------------------------
(* Properties of single-group updates (checked under SpecGroups) *)

\* The update object names the group.
Given(u, g) == IsSome(u) /\ g \in DOMAIN u[1]

\* update leaves the loop and the time source alone.
LoopKept ==
    /\ pipe'.running = pipe.running
    /\ pipe'.rafId = pipe.rafId
    /\ pipe'.startTime = pipe.startTime
    /\ pipe'.manualTime = pipe.manualTime
    /\ rafQueue' = rafQueue
    /\ pipe'.log = <<>>

\* The dither uniforms that do not depend on the pixel ratio
RatioFree(uniforms) == [uniforms EXCEPT !.u_pxSize = 0, !.u_resolution = <<0, 0>>]

\* C11 as stated: an update leaves a group it does not name untouched, the
\* uniforms derived from the group included, and leaves the loop and the
\* time source alone; update(null) changes nothing.
UpdateTouchesOnlyGivenGroups ==
    [][\A u \in GroupUpdates :
        Update(u) =>
            /\ LoopKept
            /\ ~Given(u, "gradient") =>
                    /\ pipe'.gradientConfig = pipe.gradientConfig
                    /\ pipe'.gradientUniforms = pipe.gradientUniforms
            /\ ~Given(u, "dither") =>
                    /\ pipe'.ditherConfig = pipe.ditherConfig
                    /\ pipe'.postUniforms = pipe.postUniforms
            /\ ~Given(u, "performance") =>
                    /\ pipe'.performanceConfig = pipe.performanceConfig
                    /\ pipe'.renderScale = pipe.renderScale
                    /\ pipe'.pixelRatio = pipe.pixelRatio
            /\ ~IsSome(u) => Fresh(pipe') = Fresh(pipe)]_vars

\* C11 amended: as stated, except that the two dither uniforms scaled by
\* the pixel ratio (u_pxSize, u_resolution) follow a performance group
\* even when no dither group is given; without a performance group they
\* too are unchanged.
UpdateTouchesOnlyGivenGroupsButRatio ==
    [][\A u \in GroupUpdates :
        Update(u) =>
            /\ LoopKept
            /\ ~Given(u, "gradient") =>
                    /\ pipe'.gradientConfig = pipe.gradientConfig
                    /\ pipe'.gradientUniforms = pipe.gradientUniforms
            /\ ~Given(u, "dither") =>
                    /\ pipe'.ditherConfig = pipe.ditherConfig
                    /\ RatioFree(pipe'.postUniforms) = RatioFree(pipe.postUniforms)
                    /\ ~Given(u, "performance") => pipe'.postUniforms = pipe.postUniforms
            /\ ~Given(u, "performance") =>
                    /\ pipe'.performanceConfig = pipe.performanceConfig
                    /\ pipe'.renderScale = pipe.renderScale
                    /\ pipe'.pixelRatio = pipe.pixelRatio
                    /\ pipe'.renderer = pipe.renderer
                    /\ pipe'.renderTarget = pipe.renderTarget
            /\ ~IsSome(u) => Fresh(pipe') = Fresh(pipe)]_vars

\* C11 witness: a running instance with a manual time whose gradient speed
\* was updated while its dither and performance groups keep the values it
\* was constructed with.
GradientOnlyUpdated ==
    /\ pipe.running
    /\ pipe.manualTime = Some(7000)
    /\ pipe.gradientConfig.speed = 0
    /\ pipe.gradientUniforms.uSpeed = 0
    /\ pipe.ditherConfig = DEFAULT_DITHER_CONFIG
    /\ pipe.renderScale = Some(500)
    /\ pipe.log = <<>>

-----------------------------------------------------------------------------
(* Properties of renderScale and resizing (checked under SpecConfig) *)

\* The update object gives a renderScale that differs from the stored one.
ChangesRenderScale(u) ==
    /\ Given(u, "performance")
    /\ "renderScale" \in DOMAIN u[1].performance
    /\ u[1].performance.renderScale # pipe.performanceConfig.renderScale

\* The instance is sized for the host's container at the pixel ratio the
\* code computes from the host: surface, camera and render target.
SizedFor(p, h) ==
    LET width == Max(1, FloorInt(h.rectWidth))
        height == Max(1, FloorInt(h.rectHeight))
        pixelRatio == EffectivePixelRatio(p.renderScale, width, height, h)
    IN  /\ p.pixelRatio = pixelRatio
        /\ p.renderer = [pixelRatio |-> pixelRatio, width |-> width, height |-> height]
        /\ p.renderTarget = <<Max(1, RoundInt(width * pixelRatio)),
                              Max(1, RoundInt(height * pixelRatio))>>

\* C12: an update that gives a renderScale other than the stored one stores
\* it, recomputes the pixel ratio, resizes the surface and the render
\* target and redraws a frame, the container being as it was.
RenderScaleChangeRedraws ==
    [][\A u \in ConfigUpdates :
        (ChangesRenderScale(u) /\ Update(u)) =>
            /\ pipe'.renderScale = u[1].performance.renderScale
            /\ SizedFor(pipe', HostView(TRUE))
            /\ Len(Draws(pipe'.log)) = 2]_vars

-----------------------------------------------------------------------------
(* Properties of the dither numbers (checked under SpecClamp) *)

\* The nearest value to v in [lo, hi]
Nearest(v, lo, hi) == IF v < lo THEN lo ELSE IF v > hi THEN hi ELSE v

\* Where a given number must end up in the stored dither config.
ClampedLeaf(leaf, v) ==
    IF leaf = "ditherStrength" THEN Nearest(v, 0, 1000)
    ELSE IF leaf = "levels" THEN Nearest(RoundMilli(v), 2000, 16000)
    ELSE Nearest(v, 500, 8000)

\* C13: the stored dither config always has ditherStrength in [0,1], levels
\* a whole number in [2,16] and pixelSize in [0.5,8]; a number given to
\* update is stored as the nearest value of its range.
DitherNumbersClamped ==
    /\ [](/\ pipe.ditherConfig.ditherStrength >= 0
          /\ pipe.ditherConfig.ditherStrength <= 1000
          /\ pipe.ditherConfig.levels % 1000 = 0
          /\ pipe.ditherConfig.levels >= 2000
          /\ pipe.ditherConfig.levels <= 16000
          /\ pipe.ditherConfig.pixelSize >= 500
          /\ pipe.ditherConfig.pixelSize <= 8000)
    /\ [][\A u \in ClampUpdates :
            Update(u) =>
                \A leaf \in DOMAIN u[1].dither \cap {"ditherStrength", "levels", "pixelSize"} :
                    pipe'.ditherConfig[leaf] = ClampedLeaf(leaf, u[1].dither[leaf][1])]_vars

\* C13 witness: updates have driven levels to its upper bound, pixelSize to
\* its lower bound and ditherStrength to its upper bound, on an instance
\* constructed with the defaults or below every range.
ClampedAtBounds ==
    /\ pipe.ditherConfig.levels = 16000
    /\ pipe.ditherConfig.pixelSize = 500
    /\ pipe.ditherConfig.ditherStrength = 1000
    /\ pipe.ditherConfig.ditherType = "8x8"

-----------------------------------------------------------------------------
(* Properties of the stored colors (checked under SpecConfig) *)

\* A '#' and six hex digits
IsHexColor(c) ==
    /\ Len(c) = 7
    /\ c[1] = "#"
    /\ \A i \in 2..7 : \E d \in 1..16 : c[i] = HexDigits[d] \/ c[i] = UpperHexDigits[d]

\* C14: every stored color, the three of the gradient and the three of the
\* dither config, is a '#' followed by six hex digits.
StoredColorsNormalized ==
    /\ \A i \in 1..3 : IsHexColor(pipe.gradientConfig.colors[i])
    /\ IsHexColor(pipe.ditherConfig.colorFront)
    /\ IsHexColor(pipe.ditherConfig.colorBack)
    /\ IsHexColor(pipe.ditherConfig.colorHighlight)

-----------------------------------------------------------------------------
(* Properties of construction (checked under SpecBuild) *)

\* The object holds nothing of the host: no canvas in the container, no
\* listener or observer, no GPU object.
HoldsNothing(p) ==
    /\ ~p.canvasAttached
    /\ ~p.contextLostListener /\ ~p.resizeObserver /\ ~p.observing /\ ~p.windowListener
    /\ \A r \in Resources : p.gpu[r] = "none"

\* C15: without a window the constructor throws the environment error,
\* without a WebGL2 context the context error, and in both cases leaves no
\* canvas in the container, no listener or observer and no GPU object;
\* with both it succeeds.
ConstructionFailsFast ==
    IsSome(lastBuilt) =>
        LET out == lastBuilt[1].out
        IN  /\ ~host.hasWindow => out.error = Some("environment")
            /\ (host.hasWindow /\ ~lastBuilt[1].webgl2) => out.error = Some("webgl2")
            /\ (host.hasWindow /\ lastBuilt[1].webgl2) => out.error = None
            /\ IsSome(out.error) => HoldsNothing(out.p)

\* C15 witness: a constructor call has failed for want of a WebGL2 context,
\* after the shader chunks were patched.
FailedWithoutContext ==
    /\ IsSome(lastBuilt)
    /\ host.hasWindow
    /\ ~lastBuilt[1].webgl2
    /\ lastBuilt[1].out.error = Some("webgl2")
    /\ chunksPatched

\* The stops of the last constructor call, when it gave stops and no
\* 3-color array
GivenStops ==
    LET gradient == Group(lastBuilt[1].options, "gradient")
    IN  IF IsSome(Prop(gradient, "colors")) /\ Len(Prop(gradient, "colors")[1]) = 3
        THEN None
        ELSE Prop(gradient, "colorStops")

\* The last constructor call succeeded on stops and no 3-color array.
BuiltFromStops == IsSome(lastBuilt) /\ lastBuilt[1].out.error = None /\ IsSome(GivenStops)

\* The orders (permutations of the indices) in which the stops ascend by
\* position
AscendingOrders(stops) ==
    {o \in [1..Len(stops) -> 1..Len(stops)] :
        /\ \A i, j \in 1..Len(stops) : o[i] = o[j] => i = j
        /\ \A i \in 1..(Len(stops) - 1) : stops[o[i]].position <= stops[o[i + 1]].position}

\* The ascending order that keeps stops of equal position in input order
StableOrders(stops) ==
    {o \in AscendingOrders(stops) :
        \A i \in 1..(Len(stops) - 1) :
            stops[o[i]].position = stops[o[i + 1]].position => o[i] < o[i + 1]}

\* Two hex digits of a channel value 0..255
HexByte(n) == <<HexDigits[(n \div 16) + 1], HexDigits[(n % 16) + 1]>>

\* The 50% RGB mix of two 6-digit colors, each channel rounded half up
HalfMix(a, b) ==
    <<"#">> \o HexByte((parseInt16(a[2], a[3]) + parseInt16(b[2], b[3]) + 1) \div 2)
            \o HexByte((parseInt16(a[4], a[5]) + parseInt16(b[4], b[5]) + 1) \div 2)
            \o HexByte((parseInt16(a[6], a[7]) + parseInt16(b[6], b[7]) + 1) \div 2)

\* The three colors for the stops taken in order o
Picked(stops, o) ==
    LET n == Len(stops)
    IN  IF n >= 3
        THEN <<stops[o[1]].color, stops[o[(n \div 2) + 1]].color, stops[o[n]].color>>
        ELSE IF n = 2
        THEN <<stops[o[1]].color, HalfMix(stops[o[1]].color, stops[o[2]].color),
               stops[o[2]].color>>
        ELSE IF n = 1
        THEN <<stops[1].color, stops[1].color, stops[1].color>>
        ELSE DEFAULT_COLORS

\* C16 as stated: the stored colors are three, picked from the stops in
\* ascending order of position whatever the input order, that is in every
\* ascending order there is.
ThreeColorsFromStops ==
    BuiltFromStops =>
        /\ Len(lastBuilt[1].out.p.gradientConfig.colors) = 3
        /\ \A o \in AscendingOrders(GivenStops[1]) :
                lastBuilt[1].out.p.gradientConfig.colors = Picked(GivenStops[1], o)

\* C16 amended: the stored colors are three, picked from the stops in
\* ascending order of position, stops of equal position staying in input
\* order.
ThreeColorsFromStableStops ==
    BuiltFromStops =>
        /\ Len(lastBuilt[1].out.p.gradientConfig.colors) = 3
        /\ \A o \in StableOrders(GivenStops[1]) :
                lastBuilt[1].out.p.gradientConfig.colors = Picked(GivenStops[1], o)
        /\ StableOrders(GivenStops[1]) # {}

\* C16 witness: four stops given out of order, two of them at one position,
\* gave the first, the third and the last of the sorted stops.
FourStopsResolved ==
    /\ BuiltFromStops
    /\ GivenStops[1] = <<ColorStop(BLUE, 1000), ColorStop(WHITE, 500),
                         ColorStop(RED, 0), ColorStop(GRAY, 500)>>
    /\ lastBuilt[1].out.p.gradientConfig.colors = <<RED, GRAY, BLUE>>

-----------------------------------------------------------------------------
(* Properties of repeated exports (checked under SpecRepeat) *)

\* What both passes are fed for a width x height container at device pixel
\* ratio dpr, the three groups of rest and the time given: a function of
\* these alone.
ExpectedImage(width, height, time, rest, dpr) ==
    LET w == Max(1, RoundInt(width))
        h == Max(1, RoundInt(height))
        gradientConfig == mergeGradientConfig(Group(rest, "gradient"))
        ditherConfig == mergeDitherConfig(Group(rest, "dither"))
        renderScale == mergePerformanceConfig(Group(rest, "performance")).renderScale
        ratio == clamp(OrElse(dpr, 1000), MIN_PIXEL_RATIO, MAX_PIXEL_RATIO)
        scale == OrElse(renderScale, autoRenderScale(w, h, ratio))
        pixelRatio == clamp(MulMilli(ratio, scale), MIN_PIXEL_RATIO, MAX_PIXEL_RATIO)
        size == <<Max(1, RoundInt(w * pixelRatio)), Max(1, RoundInt(h * pixelRatio))>>
    IN  [time |-> time,
         size |-> size,
         gradient |-> [createGradientMaterial(gradientConfig) EXCEPT !.uTime = time],
         dither |-> applyDitherConfig(
                        [createPostMaterial(ditherConfig) EXCEPT !.u_resolution = size],
                        ditherConfig, pixelRatio)]

\* C17: the inputs of both passes of an export are a function of its
\* configuration, its time (0 when none is given), its size and the device
\* pixel ratio: whatever the clock, the pipelines constructed and exports
\* made before and the state of the caller's host, and always with the
\* shader chunks patched.
ExportIsDeterministic ==
    [][\A time \in ExportTimes, rest \in RepeatRest, useHost \in BOOLEAN :
        \* (the first three conjuncts follow from the fourth; they are there
        \* to settle most steps without evaluating the call)
        (/\ now' = now /\ host' = host /\ IsSome(exported')
         /\ exported'[1].options.time = time /\ exported'[1].options.rest = rest
         /\ Export(Num(63500), Num(48000), time, rest, useHost, <<TRUE, "none">>)) =>
            /\ exported'[1].out.error = None
            /\ chunksPatched'
            /\ exported'[1].out.image =
                Some(ExpectedImage(63500, 48000,
                                   IF isFiniteNumber(time) THEN time.v ELSE 0,
                                   rest, host.devicePixelRatio))]_vars

\* C17 witness: an export at a fixed time made on the caller's styled host,
\* late, at a device pixel ratio of 3, after another pipeline was
\* constructed.
ExportedAgainLater ==
    /\ IsSome(exported)
    /\ exported[1].out.error = None
    /\ exported[1].options.time = Num(2500)
    /\ exported[1].options.container =
            Some([styleWidth |-> Px(200), styleHeight |-> Px(200),
                  inDocument |-> TRUE, canvases |-> 0])
    /\ exported[1].out.image[1].size = <<160, 120>>
    /\ IsSome(lastBuilt)
    /\ now = MaxClock

\* The pixel ratio from the host's device pixel ratio dpr (nullable): the
\* product with the scale, clamped; the scale is renderScale when set and
\* otherwise 0.6 for a smaller dimension of at most 720, else 0.75 for a
\* device pixel ratio of at least 2, else 1.
RatioOfHost(renderScale, width, height, dpr) ==
    LET ratio == OrElse(dpr, 1000)
        auto == IF Min(width, height) <= 720 THEN 600
                ELSE IF ratio >= 2000 THEN 750
                ELSE 1000
    IN  clamp(MulMilli(ratio, OrElse(renderScale, auto)), MIN_PIXEL_RATIO, MAX_PIXEL_RATIO)

\* The step is a resize notification for a container whose floored size
\* differs from the recorded one.
ResizedTo(size) ==
    /\ Resize(size)
    /\ \/ Max(1, FloorInt(size[1])) # pipe.lastContainerWidth
       \/ Max(1, FloorInt(size[2])) # pipe.lastContainerHeight

\* C18: after every resize that is not skipped (a resize notification for a
\* changed size, or the forced resize of a renderScale update) the pixel
\* ratio is the clamped product of the host's device pixel ratio and the
\* scale.
PixelRatioFollowsHost ==
    [][(\/ \E size \in ConfigSizes : ResizedTo(size)
        \/ \E u \in ConfigUpdates : ChangesRenderScale(u) /\ Update(u)) =>
            pipe'.pixelRatio = RatioOfHost(pipe'.renderScale, pipe'.lastContainerWidth,
                                           pipe'.lastContainerHeight,
                                           host'.devicePixelRatio)]_vars

\* C19: a resize notification for a container whose floored width and
\* height are the recorded ones changes nothing of the pixel ratio, the
\* surface, the render target, the camera and the dither uniforms, whatever
\* the device pixel ratio has become.
ResizeIsStable ==
    [][\A size \in ConfigSizes :
        (/\ Max(1, FloorInt(size[1])) = pipe.lastContainerWidth
         /\ Max(1, FloorInt(size[2])) = pipe.lastContainerHeight
         /\ Resize(size)) =>
            /\ pipe'.pixelRatio = pipe.pixelRatio
            /\ pipe'.renderer = pipe.renderer
            /\ pipe'.renderTarget = pipe.renderTarget
            /\ pipe'.cameraAspect = pipe.cameraAspect
            /\ pipe'.postUniforms = pipe.postUniforms
            /\ pipe'.lastContainerWidth = pipe.lastContainerWidth
            /\ pipe'.lastContainerHeight = pipe.lastContainerHeight]_vars

\* C19 witness: the container's rect has moved within the same whole
\* pixels after the device pixel ratio went from 1 to 3, and the instance
\* is still sized for a ratio of 1.
ResizeSkipped ==
    /\ host.rectWidth = 400900
    /\ host.rectHeight = 300200
    /\ host.devicePixelRatio = Some(3000)
    /\ pipe.lastContainerWidth = 400
    /\ pipe.lastContainerHeight = 300
    /\ pipe.renderScale = None
    /\ pipe.pixelRatio = 1000
    /\ pipe.renderTarget = <<400, 300>>

(* Properties of the teardown order (checked under Spec) *)

\* The stage of dispose() an effect belongs to: the loop's callback is
\* cancelled (0), listeners and observers are removed (1), the canvas is
\* detached (2), GPU objects are freed (3).
Stage(ev) ==
    IF ev.e = "raf" /\ ev.a = "cancel" THEN 0
    ELSE IF ev.a \in {"contextLostListener", "resizeObserver", "windowListener"} THEN 1
    ELSE IF ev.a = "canvas" THEN 2
    ELSE 3

Staged(log) ==
    SelectSeq(log, LAMBDA ev : ev.e = "teardown" \/ (ev.e = "raf" /\ ev.a = "cancel"))

\* The effects of a dispose() call come stage by stage, and the call leaves
\* the loop stopped with no callback pending.
DisposeInOrder ==
    Count(pipe.log, "teardown", "renderer") > 0 =>
        /\ ~pipe.running
        /\ pipe.rafId = None
        /\ rafQueue = {}
        /\ \A i, j \in 1..Len(Staged(pipe.log)) :
               i < j => Stage(Staged(pipe.log)[i]) <= Stage(Staged(pipe.log)[j])

\* C20: dispose() stops the loop, then removes the listeners, then detaches
\* the canvas, then frees the GPU objects, so that the loop never draws a
\* frame on a freed GPU object.
DisposeOrderProtectsLoop ==
    /\ DisposeInOrder
    /\ LoopFrame(pipe.log) => \A r \in Resources : pipe.gpu[r] # "disposed"

(* Properties of the animation loop (checked under SpecLoop) *)

\* C21: while the pipeline is Running every fired frame callback draws one
\* frame (its two passes) and schedules exactly one next callback, and a
\* pipeline that stays Running draws frames again and again.
LoopIsSelfSustaining ==
    /\ [][\A id \in rafQueue :
            (pipe.running /\ LoopCallback(id)) =>
                /\ Len(Draws(pipe'.log)) = 2
                /\ Requests(pipe'.log) = 1
                /\ pipe'.running
                /\ rafQueue' = {pipe'.rafId[1]}]_vars
    /\ (<>[]pipe.running) => []<>LoopFrame(pipe.log)

\* C21 witness: the loop has drawn a frame and its next callback has the
\* pool's first handle again, at the end of the clock.
LoopWentAround ==
    /\ LoopFrame(pipe.log)
    /\ pipe.running
    /\ pipe.rafId = Some(1)
    /\ rafSeq = 1
    /\ ~Disposed
    /\ now = MaxClock
    /\ pipe.startTime = 1

\* C22: between operations the pipeline is Running exactly when a frame
\* callback is pending, the pending callback is the one the instance holds,
\* and at most one callback is pending.
RunningIffCallbackPending ==
    /\ pipe.running <=> IsSome(pipe.rafId)
    /\ Cardinality(rafQueue) <= 1
    /\ rafQueue = {pipe.rafId[i] : i \in 1..Len(pipe.rafId)}

\* C22 witness: the loop has drawn a frame, and the third callback requested
\* since construction is the one pending.
OneCallbackAfterRestart ==
    /\ LoopFrame(pipe.log)
    /\ pipe.running
    /\ rafQueue = {3}
    /\ rafSeq = 3
    /\ pipe.rafId = Some(3)

(* Properties of the time source (checked under Spec) *)

\* Every draw call of the log is at time t.
DrawnAt(log, t) == \A i \in 1..Len(log) : log[i].e = "draw" => log[i].t = t

\* renderFrame(t) with a finite t draws one frame at t and leaves the time
\* source Manual(t); renderFrame() without a finite argument leaves the time
\* source alone.
RenderFrameSetsManual ==
    \A time \in TimeArgs :
        RenderFrame(time) =>
            IF isFiniteNumber(time)
            THEN /\ pipe'.manualTime = Some(time.v)
                 /\ Len(Draws(pipe'.log)) = 2
                 /\ DrawnAt(pipe'.log, time.v)
            ELSE pipe'.manualTime = pipe.manualTime

\* C23 as stated: renderFrame(t) with a finite t makes the time source
\* Manual(t), and from then on every frame is drawn at t and the time source
\* stays Manual(t) until setManualTime is called with null or a non-finite
\* value; renderFrame() without a finite argument never changes it.
RenderFrameManualUntilCleared ==
    [][/\ RenderFrameSetsManual
       /\ (/\ IsSome(pipe.manualTime)
           /\ ~(\E time \in TimeArgs : ~isFiniteNumber(time) /\ SetManualTime(time))) =>
               /\ pipe'.manualTime = pipe.manualTime
               /\ DrawnAt(pipe'.log, pipe.manualTime[1])]_vars

\* C23: renderFrame(t) with a finite t makes the time source Manual(t), and
\* from then on every frame is drawn at t and the time source stays
\* Manual(t) until setManualTime is called or renderFrame is called with
\* another finite time; renderFrame() without a finite argument never
\* changes it.
RenderFrameManualUntilReplaced ==
    [][/\ RenderFrameSetsManual
       /\ (/\ IsSome(pipe.manualTime)
           /\ ~(\E time \in TimeArgs : SetManualTime(time))
           /\ ~(\E time \in TimeArgs : isFiniteNumber(time) /\ RenderFrame(time))) =>
               /\ pipe'.manualTime = pipe.manualTime
               /\ DrawnAt(pipe'.log, pipe.manualTime[1])]_vars

\* C23 witness: with the loop running and the time source Manual(7), a frame
\* has been drawn at 7 outside the loop, at the end of the clock.
ManualFrameOutsideLoop ==
    /\ pipe.manualTime = Some(7000)
    /\ pipe.running
    /\ Len(Draws(pipe.log)) = 2
    /\ Requests(pipe.log) = 0
    /\ DrawnAt(pipe.log, 7000)
    /\ pipe.startTime = 1
    /\ now = MaxClock

(* Properties of the gradient's colors (checked under SpecStops) *)

\* The update's gradient group has an own property k.
GradientHas(u, k) == Given(u, "gradient") /\ k \in DOMAIN u[1].gradient

\* The update supplies an explicit 3-element colors array.
SuppliesThreeColors(u) ==
    /\ GradientHas(u, "colors")
    /\ IsSome(u[1].gradient.colors)
    /\ Len(u[1].gradient.colors[1]) = 3

\* The stored colors and the color uniforms are the same after the step.
ColorsKept ==
    /\ pipe'.gradientConfig.colors = pipe.gradientConfig.colors
    /\ pipe'.gradientUniforms.colors = pipe.gradientUniforms.colors
    /\ pipe'.gradientUniforms.uC1 = pipe.gradientUniforms.uC1
    /\ pipe'.gradientUniforms.uC2 = pipe.gradientUniforms.uC2
    /\ pipe'.gradientUniforms.uC3 = pipe.gradientUniforms.uC3

\* C24 as stated: only an update that supplies an explicit 3-element colors
\* array changes the stored colors, and an update that supplies colorStops
\* without colors leaves the stored colors and the color uniforms unchanged.
OnlyThreeColorsChangeColors ==
    [][\A u \in StopUpdates :
        Update(u) =>
            /\ ColorsKept \/ SuppliesThreeColors(u)
            /\ (GradientHas(u, "colorStops") /\ ~GradientHas(u, "colors")) => ColorsKept]_vars

\* C24: only an update whose gradient group has a colors property changes
\* the stored colors: a 3-element array replaces them, any other value
\* (undefined, another length) has them resolved anew from the update's
\* stops, or the defaults; an update that supplies colorStops and has no
\* colors property leaves the stored colors and the color uniforms unchanged.
OnlyColorsPropertyChangesColors ==
    [][\A u \in StopUpdates :
        Update(u) =>
            /\ ColorsKept \/ GradientHas(u, "colors")
            /\ (GradientHas(u, "colorStops") /\ ~GradientHas(u, "colors")) => ColorsKept
            /\ SuppliesThreeColors(u) =>
                   pipe'.gradientConfig.colors = u[1].gradient.colors[1]
            /\ (GradientHas(u, "colors") /\ ~SuppliesThreeColors(u)) =>
                   pipe'.gradientConfig.colors =
                       resolveGradientColors([colorStops |-> Prop(u[1].gradient, "colorStops"),
                                              colors |-> None])]_vars

\* C24 witness: the colors set by an update are stored together with the
\* intensity that only the update supplying a stop gives: the stop is not
\* among the colors.
StopsIgnored ==
    /\ pipe.gradientConfig.colors = <<CYAN, GRAY, BLACK>>
    /\ pipe.gradientUniforms.uC1 = hexToRgbNormalized(CYAN)
    /\ pipe.gradientConfig.intensity = 360
    /\ Len(pipe.log) = 0

(* Properties of the dither uniforms (checked under SpecConfig) *)

\* C25: after construction and after every update and resize the dither
\* uniforms are the values derived from the stored dither config and pixel
\* ratio, and the resolution uniform is the render target's size.
UniformsInSync ==
    /\ pipe.postUniforms.u_pxSize =
           MulMilli(Max(1000, pipe.ditherConfig.pixelSize), Max(1000, pipe.pixelRatio))
    /\ pipe.postUniforms.u_colorSteps = pipe.ditherConfig.levels
    /\ pipe.postUniforms.u_mixStrength =
           (IF pipe.ditherConfig.enabled THEN pipe.ditherConfig.ditherStrength ELSE 0)
    /\ pipe.postUniforms.u_originalColors = pipe.ditherConfig.useOriginalColors
    /\ pipe.postUniforms.u_resolution = pipe.renderTarget

\* C25 witness: a pixel size of 1.6 and a disabled dither were stored at
\* one pixel ratio, three dither levels at another, and the instance was
\* resized since.
SyncedAfterRescale ==
    /\ pipe.ditherConfig.pixelSize = 1600
    /\ ~pipe.ditherConfig.enabled
    /\ pipe.ditherConfig.levels = 3000
    /\ pipe.pixelRatio = 1875
    /\ pipe.postUniforms.u_pxSize = 3000
    /\ pipe.postUniforms.u_mixStrength = 0
    /\ pipe.renderTarget = <<1920, 1500>>

(* Properties of the dither shader (checked under SpecShader) *)

\* The matrix size N of an ordered dither type.
MatrixSize(type) == IF type = 2 THEN 2 ELSE IF type = 3 THEN 4 ELSE 8

\* The threshold of the shaded fragment is also the threshold at period
\* further along each axis.
RepeatsAfter(period) ==
    /\ fragment[1].out.threshold =
           sampleThreshold(<<fragment[1].pixel[1] + period, fragment[1].pixel[2]>>,
                           pipe.postUniforms.u_type, pipe.postUniforms.u_pxSize, 0)
    /\ fragment[1].out.threshold =
           sampleThreshold(<<fragment[1].pixel[1], fragment[1].pixel[2] + period>>,
                           pipe.postUniforms.u_type, pipe.postUniforms.u_pxSize, 0)

\* C26: for an ordered dither type of matrix size N the threshold repeats
\* along each axis with period N * pixelSize * pixel ratio, for every stored
\* pixelSize and every effective pixel ratio.
ThresholdPeriodIsPixelSize ==
    (IsSome(fragment) /\ pipe.postUniforms.u_type # 1) =>
        RepeatsAfter(MatrixSize(pipe.postUniforms.u_type)
                     * MulMilli(pipe.ditherConfig.pixelSize, pipe.pixelRatio))

\* The period the shader has: pixel sizes below 1 count as 1.
ThresholdPeriodIsCellSize ==
    (IsSome(fragment) /\ pipe.postUniforms.u_type # 1) =>
        RepeatsAfter(MatrixSize(pipe.postUniforms.u_type)
                     * MulMilli(Max(1000, pipe.ditherConfig.pixelSize), pipe.pixelRatio))

\* The stored number of levels and the stored colors as the shader gets them.
Levels == pipe.ditherConfig.levels \div 1000
Front == hexToVec4(pipe.ditherConfig.colorFront)
Back == hexToVec4(pipe.ditherConfig.colorBack)
Highlight == hexToVec4(pipe.ditherConfig.colorHighlight)

\* The shaded fragment was drawn in two/three-tone mode at full mix
\* strength; k is the numerator of its quantized value over the levels.
TwoToneFragment(k) ==
    /\ IsSome(fragment)
    /\ pipe.ditherConfig.useOriginalColors
    /\ pipe.postUniforms.u_mixStrength = 1000
    /\ fragment[1].out.quantized = <<k, Levels>>

\* tinted * quantized over the background, channel by channel, in
\* thousandths of a numerator
Over(tinted, k) ==
    [i \in 1..3 |-> 1000 * ((tinted[i] * k + Back[i] * (Levels - k)) \div Levels)]

\* C27: in two/three-tone mode at full mix strength a fragment quantized to
\* 1 has the highlight color, a fragment quantized to 0 the background
\* color, and the highlight color stands for the front color exactly when
\* quantized >= 1.02 - 0.02 * levels.
TwoToneResolves ==
    \A k \in 0..16 :
        TwoToneFragment(k) =>
            /\ k = Levels => fragment[1].out.color = [i \in 1..3 |-> 1000 * Highlight[i]]
            /\ k = 0 => fragment[1].out.color = [i \in 1..3 |-> 1000 * Back[i]]
            /\ 1000 * k >= (1020 - 20 * Levels) * Levels =>
                   fragment[1].out.color = Over(Highlight, k)
            /\ 1000 * k < (1020 - 20 * Levels) * Levels =>
                   fragment[1].out.color = Over(Front, k)

\* C27 witness: with 4 levels a fragment quantized to 4/4 has the highlight
\* color, which is neither the front color nor the texel's.
HighlightAtOne ==
    /\ TwoToneFragment(4)
    /\ Levels = 4
    /\ Highlight # Front
    /\ fragment[1].baseSample = <<204, 204, 204, 255>>
    /\ fragment[1].out.color = [i \in 1..3 |-> 1000 * Highlight[i]]

\* C28: while the stored dither config is disabled the mix-strength uniform
\* is 0, a shaded fragment has its texel's color and its luminance is not
\* biased; every shaded fragment has its texel's alpha.
DisabledDitherPassesBase ==
    /\ ~pipe.ditherConfig.enabled => pipe.postUniforms.u_mixStrength = 0
    /\ IsSome(fragment) => fragment[1].out.alpha = fragment[1].baseSample[4]
    /\ (IsSome(fragment) /\ ~pipe.ditherConfig.enabled) =>
           /\ fragment[1].out.color = [i \in 1..3 |-> 1000 * fragment[1].baseSample[i]]
           /\ fragment[1].out.biased = luminance(fragment[1].baseSample)

\* C28 witness: a half-transparent green texel was shaded in two/three-tone
\* mode with the 2x2 matrix on the resized instance after the dither was
\* disabled, at a threshold away from the middle.
DisabledFragment ==
    /\ IsSome(fragment)
    /\ ~pipe.ditherConfig.enabled
    /\ pipe.ditherConfig.useOriginalColors
    /\ pipe.postUniforms.u_type = 2
    /\ pipe.lastContainerWidth = 1024
    /\ fragment[1].baseSample = <<0, 255, 0, 128>>
    /\ fragment[1].out.threshold = 48
    /\ fragment[1].out.color = <<0, 255000, 0>>
    /\ fragment[1].out.alpha = 128

(* Properties of the exported size (checked under SpecSizes) *)

\* The last export returned an image; Ratio is the effective pixel ratio of
\* its temporary instance.
Returned == IsSome(exported) /\ exported[1].out.error = None
Ratio == exported[1].out.instance[1].pixelRatio
Asked == <<exported[1].options.width.v, exported[1].options.height.v>>
Size == exported[1].out.image[1].size

\* C29 as stated: the render target and the resolution uniform of an export
\* of W x H are max(1, round(round(W) * r)) by max(1, round(round(H) * r)) for
\* the effective pixel ratio r in [1, 2.5], and the rendered size is the
\* requested one only when r = 1.
ExportSizeIsRoundedProduct ==
    Returned =>
        /\ Ratio >= 1000 /\ Ratio <= 2500
        /\ Size = <<Max(1, RoundInt(RoundInt(Asked[1]) * Ratio)),
                    Max(1, RoundInt(RoundInt(Asked[2]) * Ratio))>>
        /\ exported[1].out.image[1].dither.u_resolution = Size
        /\ (Size[1] * 1000 = Asked[1] /\ Size[2] * 1000 = Asked[2]) => Ratio = 1000

\* C29: the render target and the resolution uniform of an export of W x H
\* are max(1, round(w * r)) by max(1, round(h * r)) for w = max(1, round(W)),
\* h = max(1, round(H)) and the effective pixel ratio r in [1, 2.5]; at
\* r = 1 the rendered size is w by h.
ExportSizeIsRoundedContainer ==
    Returned =>
        /\ Ratio >= 1000 /\ Ratio <= 2500
        /\ Size = <<Max(1, RoundInt(Max(1, RoundInt(Asked[1])) * Ratio)),
                    Max(1, RoundInt(Max(1, RoundInt(Asked[2])) * Ratio))>>
        /\ exported[1].out.image[1].dither.u_resolution = Size
        /\ Ratio = 1000 => Size = <<Max(1, RoundInt(Asked[1])), Max(1, RoundInt(Asked[2]))>>

\* C29 witness: an export of 0.4 x 1 at a pixel ratio of 1.5 is 2 x 2.
TinyExport ==
    /\ Returned
    /\ Asked = <<400, 1000>>
    /\ Ratio = 1500
    /\ Size = <<2, 2>>

(* Properties of the random profile (checked under SpecProfile) *)

\* The dither group of the profile, value by value.
Dither == [k \in DOMAIN profile[1].dither |-> profile[1].dither[k][1]]

\* C30: createRandomBackgroundProfile draws 11 values, in a fixed order; the
\* profile has one of the five palettes and dither fields inside their valid
\* ranges, so that merging them clamps nothing; it is a function of the
\* values drawn.
ProfileIsValid ==
    IsSome(profile) =>
        /\ rng.drawn = 11
        /\ \E i \in 1..5 : profile[1].colors = BACKGROUND_PALETTES[i]
        /\ Dither.ditherType \in {"8x8", "4x4", "2x2"}
        /\ Dither.ditherStrength >= 600 /\ Dither.ditherStrength < 850
        /\ Dither.levels \in {3000, 4000, 5000}
        /\ Dither.pixelSize >= 1100 /\ Dither.pixelSize < 2100
        /\ mergeDitherConfig(profile[1].dither) = Dither
        /\ profile[1].colors = BACKGROUND_PALETTES[((rng.values[1] * 5) \div 1000) + 1]
        /\ profile[1].noiseStrength = 350 + (rng.values[2] * 150) \div 1000
        /\ profile[1].intensity = 300 + (rng.values[3] * 120) \div 1000
        /\ profile[1].noiseDensityScale = 700 + (rng.values[4] * 250) \div 1000
        /\ profile[1].frequencyScale = 820 + (rng.values[5] * 250) \div 1000
        /\ profile[1].amplitudeScale = 850 + (rng.values[6] * 200) \div 1000
        /\ Dither.ditherType = DITHER_CHOICES[((rng.values[7] * 3) \div 1000) + 1]
        /\ Dither.ditherStrength = 600 + (rng.values[8] * 250) \div 1000
        /\ Dither.levels = 1000 * (3 + (rng.values[9] * 3) \div 1000)
        /\ Dither.pixelSize = 1100 + rng.values[10]
        /\ profile[1].performance.renderScale = Some(840 + (rng.values[11] * 100) \div 1000)

\* C30 witness: the source returned 0.999 at its ninth call only; the
\* profile has 5 levels and the first palette, and the live instance has
\* the profile's dither group.
ProfileMerged ==
    /\ IsSome(profile)
    /\ rng.values[9] = 999
    /\ rng.values[7] = 0
    /\ Dither.levels = 5000
    /\ Dither.ditherType = "8x8"
    /\ profile[1].colors = BACKGROUND_PALETTES[1]
    /\ pipe.ditherConfig = Dither
    /\ pipe.postUniforms.u_colorSteps = 5000

====
